---- MODULE Spec2Model ----
(***************************************************************************)
(* A model of the budgetview analysis engines:                             *)
(*   - BundleAnalyzer (src/src/utils/bundleAnalyzer.ts): ingestion of a    *)
(*     list of files into modules and chunks, and the insight rules;       *)
(*   - PerformanceAnalyzer (src/src/utils/performanceAnalyzer.ts): the     *)
(*     performance score.                                                  *)
(*                                                                         *)
(* Arrays are heap objects: the instance fields this.modules, this.chunks  *)
(* and this.insights hold references, a returned aggregate holds the       *)
(* references the fields held at the return.  An async call is cut at its  *)
(* awaits; everything between two awaits is one atomic step.               *)
(*                                                                         *)
(* Numbers.  Sizes are non-negative integers.  Every quantity the code     *)
(* obtains by multiplying a size by 0.3 or 0.4 (gzip estimates, estimated  *)
(* savings) is kept in TENTHS of a byte, so that the arithmetic is exact;  *)
(* comparisons of quotients are cross-multiplied.  Where the rounding of   *)
(* the doubles decides a result (Math.floor and Math.round of a product,   *)
(* the comparison of two products) the doubles are computed bit by bit.    *)
(***************************************************************************)
EXTENDS Integers, Sequences, FiniteSets, TLC

\* ------------------------------------------------------------------ bounds
\* Longest file list handed to analyzeFiles.
MaxFiles == 2

\* ------------------------------------------------------- generic helpers
RECURSIVE SumSeq(_)
SumSeq(s) == IF s = <<>> THEN 0 ELSE Head(s) + SumSeq(Tail(s))

Range(s) == {s[i] : i \in DOMAIN s}

SeqMap(F(_), s) == [i \in DOMAIN s |-> F(s[i])]

Max2(a, b) == IF a >= b THEN a ELSE b
Min2(a, b) == IF a <= b THEN a ELSE b

\* All sequences over S of length at most n.
SeqsUpTo(S, n) == UNION {[1..k -> S] : k \in 0..n}

\* ------------------------------------------------- IEEE-754 double numbers
\* The numbers of the program are doubles.  A non-negative double x is kept
\* as the natural number x * 2^70, written in limbs of 14 bits, least
\* significant first and without leading zero limbs; every double that
\* occurs here is a multiple of 2^-70.  The operations are computed exactly
\* and then rounded to 53 significant bits, ties to even, as the hardware
\* does.
Base == 2 ^ 14

\* The element of a one-element set.  {F(v) : v \in {e}} computes e once,
\* however often F uses it.
Only(S) == CHOOSE x \in S : TRUE

Limb(n, i) == IF i \in DOMAIN n THEN n[i] ELSE 0

RECURSIVE Strip(_)
Strip(n) == IF n = <<>> \/ n[Len(n)] # 0 THEN n ELSE Strip(SubSeq(n, 1, Len(n) - 1))

\* The limbs of the number whose i-th digit (of weight Base^(i-1)) is d[i];
\* the digits may exceed the base.
RECURSIVE CarryFrom(_, _, _)
CarryFrom(d, i, c) ==
  IF i > Len(d) THEN (IF c = 0 THEN <<>> ELSE <<c % Base>> \o CarryFrom(d, i, c \div Base))
  ELSE <<(d[i] + c) % Base>> \o CarryFrom(d, i + 1, (d[i] + c) \div Base)

Carry(digits) == Only({Strip(CarryFrom(d, 1, 0)) : d \in {digits}})

BigAdd(x, y) ==
  Only({Carry([i \in 1..(IF Len(a) >= Len(b) THEN Len(a) ELSE Len(b)) |->
                 Limb(a, i) + Limb(b, i)]) : a \in {x}, b \in {y}})

RECURSIVE Column(_, _, _, _)
Column(a, b, i, j) ==
  IF j > Len(a) \/ j > i THEN 0 ELSE a[j] * Limb(b, i + 1 - j) + Column(a, b, i, j + 1)

BigMul(x, y) ==
  Only({Carry([i \in 1..(Len(a) + Len(b)) |-> Column(a, b, i, 1)]) : a \in {x}, b \in {y}})

RECURSIVE BigLess(_, _)
BigLess(a, b) ==
  IF Len(a) # Len(b) THEN Len(a) < Len(b)
  ELSE IF a = <<>> THEN FALSE
  ELSE IF a[Len(a)] # b[Len(b)] THEN a[Len(a)] < b[Len(b)]
  ELSE BigLess(SubSeq(a, 1, Len(a) - 1), SubSeq(b, 1, Len(b) - 1))

BitLen(n) ==
  IF n = <<>> THEN 0
  ELSE 14 * (Len(n) - 1) + (CHOOSE w \in 1..14 : 2 ^ (w - 1) <= n[Len(n)] /\ n[Len(n)] < 2 ^ w)

Bit(n, i) == (Limb(n, (i \div 14) + 1) \div (2 ^ (i % 14))) % 2

\* The bits of n below bit s are all zero.
LowZero(n, s) ==
  /\ \A j \in 1..(s \div 14) : Limb(n, j) = 0
  /\ Limb(n, (s \div 14) + 1) % (2 ^ (s % 14)) = 0

\* n with its bits below bit s cleared.
TruncLow(n, s) ==
  Strip([j \in DOMAIN n |->
           IF j <= (s \div 14) THEN 0
           ELSE IF j = (s \div 14) + 1 THEN n[j] - (n[j] % (2 ^ (s % 14)))
           ELSE n[j]])

Pow2(s) == [j \in 1..((s \div 14) + 1) |-> IF j = (s \div 14) + 1 THEN 2 ^ (s % 14) ELSE 0]

\* Round to nearest, ties to even, at 53 significant bits.
Round53(exact) ==
  Only({IF BitLen(n) <= 53 THEN n
        ELSE LET s == BitLen(n) - 53 IN
             IF Bit(n, s - 1) = 1 /\ (~LowZero(n, s - 1) \/ Bit(n, s) = 1)
             THEN BigAdd(TruncLow(n, s), Pow2(s))
             ELSE TruncLow(n, s) : n \in {exact}})

DropLimbs(x, q) == Only({SubSeq(n, q + 1, Len(n)) : n \in {x}})

Zeros(q) == [j \in 1..q |-> 0]

\* The double of a non-negative integer below 2^31.
FromInt(n) == IF n = 0 THEN <<>> ELSE Zeros(5) \o Carry(<<n>>)

\* x * y and x + y of doubles.
fmul(x, y) == DropLimbs(Round53(BigMul(x, y)), 5)

fadd(x, y) == Round53(BigAdd(x, y))

\* x - y of limb numbers, for x >= y: x plus the complement of y, less the
\* power of the base the complement added.
BigSub(x, y) ==
  Only({Strip(SubSeq(Carry([i \in 1..Len(a) |->
                              a[i] + (Base - 1 - Limb(b, i)) + (IF i = 1 THEN 1 ELSE 0)]),
                     1, Len(a))) : a \in {x}, b \in {y}})

\* x - y of doubles, for x >= y.
fsub(x, y) == Round53(BigSub(x, y))

\* Quotient and remainder of the limbs 1..i of n, with r carried in from
\* the limbs above, by an integer below 2^24: long division from the top,
\* seven bits at a time.
RECURSIVE DivFrom(_, _, _, _)
DivFrom(n, i, den, r) ==
  IF i = 0 THEN [q |-> <<>>, r |-> r]
  ELSE Only({Only({Only({[q |-> Append(rest.q, (a \div den) * 128 + (b \div den)),
                          r |-> rest.r] :
                           rest \in {DivFrom(n, i - 1, den, b % den)}}) :
                     b \in {(a % den) * 128 + (n[i] % 128)}}) :
               a \in {r * 128 + (n[i] \div 128)}})

\* x / den of a double by a positive integer below 2^24: the quotient is
\* taken with 28 more bits and a sticky last bit, then rounded.
fdiv(x, den) ==
  Only({DropLimbs(Round53(Strip(IF d.r # 0 /\ d.q[1] % 2 = 0
                                THEN [d.q EXCEPT ![1] = @ + 1] ELSE d.q)), 2) :
          d \in {DivFrom(n, Len(n), den, 0) : n \in {Zeros(2) \o x}}})

\* Base^k modulo a small integer.
RECURSIVE PowMod(_, _)
PowMod(k, den) == IF k = 0 THEN 1 % den ELSE (PowMod(k - 1, den) * (Base % den)) % den

\* The number made of the limbs of n above limb i, modulo a small integer.
RemAbove(n, i, den) ==
  SumSeq([j \in 1..(Len(n) - i) |-> n[i + j] * PowMod(j - 1, den)]) % den

\* Quotient and remainder of a limb number by a small integer (long
\* division, limb by limb from the top).
DivSmall(x, den) ==
  Only({[q |-> [i \in DOMAIN n |-> (RemAbove(n, i, den) * Base + n[i]) \div den],
         r |-> RemAbove(n, 0, den)] : n \in {x}})

\* The double a decimal literal num/den denotes: the nearest one.  The
\* quotient is taken with 28 more bits and a sticky last bit.
Dec(num, den) ==
  Only({DropLimbs(Round53(Strip(IF d.r # 0 /\ d.q[1] % 2 = 0
                                THEN [d.q EXCEPT ![1] = @ + 1] ELSE d.q)), 2) :
          d \in {DivSmall(Zeros(7) \o Carry(<<num>>), den)}})

RECURSIVE ToInt(_)
ToInt(n) == IF n = <<>> THEN 0 ELSE Head(n) + Base * ToInt(Tail(n))

\* Math.floor and Math.round (halves go up), as integers.
floor(x) == Only({ToInt(n) : n \in {DropLimbs(x, 5)}})

round(x) == floor(BigAdd(x, Pow2(69)))

fless(x, y) == Only({BigLess(a, b) : a \in {x}, b \in {y}})

\* ------------------------------------------------------------ the inputs
\* One entry of a webpack-stats "modules" array.
\* bad: the entry is null, or its name is not a string, so that reading it
\* throws a TypeError.  id = "" and name = "" stand for an absent (falsy)
\* field; hasGzip tells whether the entry carries a gzipSize property.
Entry(id, name, size, hasGzip, gzipSize, external) ==
  [bad |-> FALSE, id |-> id, name |-> name, size |-> size, hasGzip |-> hasGzip,
   gzipSize |-> gzipSize, external |-> external, dependencies |-> <<>>]

NullEntry == [Entry("", "", 0, FALSE, 0, FALSE) EXCEPT !.bad = TRUE]

\* One entry of a webpack-stats "chunks" array, with the same conventions.
ChunkEntry(id, name, size, hasGzip, gzipSize, entry) ==
  [bad |-> FALSE, id |-> id, name |-> name, size |-> size, hasGzip |-> hasGzip,
   gzipSize |-> gzipSize, modules |-> <<>>, entry |-> entry]

\* One entry of a source map's "sources" array: a string, or null (bad).
Source(s) == [bad |-> FALSE, source |-> s]
NullSource == [bad |-> TRUE, source |-> ""]

\* One require call found in a .js text: fn is the callee as written, quoted
\* tells a string-literal argument from an integer literal, numeric tells
\* whether the argument consists of digits only.
Require(fn, arg, quoted, numeric) ==
  [fn |-> fn, arg |-> arg, quoted |-> quoted, numeric |-> numeric]

\* One statement of a JavaScript text, on a line of its own.  The kinds and
\* what they stand for:
\*   importNamed    import { a } from 'source';
\*   importDefault  import x from 'source';
\*   importBare     import 'source';
\*   require        require('source');
\*   importCall     import('source');
\*   exportConst    export const z = 1;
\*   moduleExports  module.exports = x;
\*   var            var x = 1;
\*   webpackJsonp   webpackJsonp([]);
\*   webpackRequire __webpack_require__(1);
\*   function       function source(a) {
\*   arrow          const source = (a) => {
\*   asyncFunction  async function source(a) {
\*   class          class source {
\*   return         return 1;
\*   closeBrace     }                (alone, or with white space around it)
\*   closeBraceSemi };
Stmt(kind, source) == [kind |-> kind, source |-> source]

\* A File as the engine sees it: name, size (bytes), and what text() yields.
\*   readable   - text() resolves (FALSE: it rejects)
\*   json       - JSON.parse of the text succeeds and yields an object
\*   hasModules / hasChunks / hasSources - the object has that (truthy) field
\*   length     - content.length
\*   marker     - the text holds webpackJsonp or webpackChunk, or the bare
\*                words webpack_require / __webpack_require__
\*   requires   - the require calls of the text, in text order
\*   text       - the statements of the text, as the JavaScript analyzer
\*                sees them (see Stmt below)
BlankFile(name, size) ==
  [name |-> name, size |-> size, readable |-> TRUE, json |-> FALSE,
   hasModules |-> FALSE, modules |-> <<>>,
   hasChunks |-> FALSE, chunks |-> <<>>,
   hasSources |-> FALSE, sources |-> <<>>,
   length |-> size, marker |-> FALSE, requires |-> <<>>, text |-> <<>>]

StatsFile(name, size, entries) ==
  [BlankFile(name, size) EXCEPT !.json = TRUE, !.hasModules = TRUE, !.modules = entries]

ChunksFile(name, size, entries) ==
  [BlankFile(name, size) EXCEPT !.json = TRUE, !.hasChunks = TRUE, !.chunks = entries]

MapFile(name, size, srcs) ==
  [BlankFile(name, size) EXCEPT !.json = TRUE, !.hasSources = TRUE, !.sources = srcs]

JsFile(name, size, marker, requires, text) ==
  [BlankFile(name, size) EXCEPT !.marker = marker, !.requires = requires,
                                !.text = text]

\* The files of the model.
StatsJson  == StatsFile("stats.json", 90,
                <<Entry("", "a.js", 400000, TRUE, 350000, FALSE)>>)
DepsJson   == StatsFile("deps.json", 150,
                <<Entry("m1", "utils.js", 1000, TRUE, 0, FALSE),
                  Entry("", "", 0, FALSE, 0, TRUE)>>)
BrokenJson == StatsFile("broken.json", 120,
                <<Entry("m1", "utils.js", 500, FALSE, 0, FALSE), NullEntry>>)
BadJson    == BlankFile("bad.json", 10)
ChunksJson == ChunksFile("chunks.json", 80,
                <<ChunkEntry("", "", 300000, FALSE, 0, FALSE),
                  ChunkEntry("vendor", "vendor", 1000, TRUE, 400, TRUE)>>)
AppMap     == MapFile("app.js.map", 200,
                <<Source("src/index.js"), Source("src/app.css")>>)
BrokenMap  == MapFile("broken.map", 60, <<Source("src/index.js"), NullSource>>)
BundleJs   == JsFile("bundle.js", 700000, FALSE,
                <<Require("__webpack_require__", "./src/index.js", TRUE, FALSE),
                  Require("__webpack_require__", "1", FALSE, TRUE),
                  Require("webpack_require", "lodash", TRUE, FALSE),
                  Require("__webpack_require__", "./src/index.js", TRUE, FALSE)>>,
                <<>>)
VendorJs   == JsFile("vendor.js", 1001, TRUE,
                <<Require("__webpack_require__", "1", FALSE, TRUE)>>, <<>>)
PlainJs    == JsFile("plain.js", 2000, FALSE, <<>>,
                <<Stmt("importBare", "react"), Stmt("require", "./util"),
                  Stmt("importNamed", "react")>>)
NotesTxt   == BlankFile("notes.txt", 30)
GoneJs     == [JsFile("gone.js", 40, FALSE, <<>>, <<>>) EXCEPT !.readable = FALSE]

Files == {StatsJson, DepsJson, BrokenJson, BadJson, ChunksJson, AppMap, BrokenMap,
          BundleJs, VendorJs, PlainJs, NotesTxt, GoneJs}

FileLists == SeqsUpTo(Files, MaxFiles)

\* --------------------------------------------------------- string helpers
\* name.split('.').pop(), lower-cased: the text after the last dot, or the
\* whole name when it has no dot.  Strings cannot be split here, so the
\* extension is tabulated for the names of the model.
Extension(name) ==
  CASE name \in {"a.js", "utils.js", "src/index.js", "./src/index.js", "bundle.js",
                 "vendor.js", "plain.js", "gone.js"} -> "js"
    [] name \in {"src/app.css"} -> "css"
    [] name \in {"stats.json", "deps.json", "broken.json", "bad.json", "chunks.json"}
         -> "json"
    [] name \in {"app.js.map", "broken.map"} -> "map"
    [] name \in {"notes.txt"} -> "txt"
    [] OTHER -> name

getFileType(filename) ==
  IF filename = "" THEN "other"
  ELSE LET extension == Extension(filename) IN
       CASE extension \in {"js", "jsx", "ts", "tsx"} -> "js"
         [] extension \in {"css", "scss", "sass", "less"} -> "css"
         [] extension = "json" -> "json"
         [] extension = "map" -> "map"
         [] OTHER -> "other"

estimateSourceSize(source) == Len(source) * 2

\* -------------------------------------------------- the JavaScript analyzer
\* The JavaScriptAnalysis object, as far as it is modelled: the file type and
\* its confidence, the imports, the exports and the dependencies.  The texts
\* of the model declare no function and no class; the libraries, the code
\* metrics and the opportunities are left out.
createEmptyAnalysis ==
  [fileType |-> "unknown", confidence |-> 0, functions |-> <<>>, classes |-> <<>>,
   imports |-> <<>>, exports |-> <<>>, dependencies |-> <<>>,
   codeMetrics |-> [totalLines |-> 0]]

\* The javascriptAnalysis of a module that has none (undefined).
NoAnalysis == [fileType |-> "undefined"]

\* The number of matches of a pattern (named by its regular expression, the
\* class of the three quote characters written [quote]) in a statement of
\* each kind.
occurrences(kind, pattern) ==
  CASE kind \in {"importNamed", "importDefault"}
         /\ pattern \in {"import\\s+", "from\\s+[quote]"} -> 1
    [] kind = "importBare" /\ pattern = "import\\s+" -> 1
    [] kind = "exportConst" /\ pattern \in {"export\\s+", "const\\s+\\w+\\s*="} -> 1
    [] kind = "moduleExports" /\ pattern = "module\\.exports" -> 1
    [] kind = "var" /\ pattern = "var\\s+\\w+\\s*=" -> 1
    [] kind = "webpackJsonp" /\ pattern = "webpackJsonp" -> 1
    [] kind = "webpackRequire"
         /\ pattern \in {"webpack_require", "__webpack_require__"} -> 1
    [] kind \in {"function", "asyncFunction"}
         /\ pattern = "function\\s+\\w+\\s*\\(" -> 1
    [] kind = "arrow" /\ pattern = "const\\s+\\w+\\s*=" -> 1
    [] kind = "class" /\ pattern = "class\\s+\\w+" -> 1
    [] OTHER -> 0

\* this.content.match(pattern), the number of matches (0 for null).
matches(content, pattern) ==
  SumSeq([i \in DOMAIN content |-> occurrences(content[i].kind, pattern)])

\* patterns.reduce((score, pattern) => score + (matches ? matches.length *
\* weight : 0), 0) over the first k patterns.
RECURSIVE indicatorScore(_, _, _, _)
indicatorScore(content, patterns, weight, k) ==
  IF k = 0 THEN FromInt(0)
  ELSE fadd(indicatorScore(content, patterns, weight, k - 1),
            IF matches(content, patterns[k]) > 0
            THEN fmul(FromInt(matches(content, patterns[k])), weight)
            ELSE FromInt(0))

\* The literals of the indicator passes (the weight of one match) and of the
\* scores object (the weight of a family).
matchWeights ==
  [webpack |-> Dec(2, 10), bundle |-> Dec(15, 100), module |-> Dec(1, 10),
   vanilla |-> Dec(5, 100)]

familyWeights ==
  [webpack |-> Dec(4, 10), bundle |-> Dec(3, 10), module |-> Dec(2, 10),
   vanilla |-> Dec(1, 10)]

detectWebpackIndicators(content) ==
  indicatorScore(content,
                 <<"webpack_require", "__webpack_require__", "webpackJsonp",
                   "webpackChunk", "__webpack_modules__">>,
                 matchWeights.webpack, 5)

detectBundleIndicators(content) ==
  indicatorScore(content,
                 <<"\\(function\\s*\\(", "UMD|AMD|CommonJS", "define\\s*\\(",
                   "module\\.exports">>,
                 matchWeights.bundle, 4)

detectModuleIndicators(content) ==
  indicatorScore(content, <<"import\\s+", "export\\s+", "from\\s+[quote]">>,
                 matchWeights.module, 3)

detectVanillaIndicators(content) ==
  indicatorScore(content,
                 <<"function\\s+\\w+\\s*\\(", "const\\s+\\w+\\s*=", "let\\s+\\w+\\s*=",
                   "var\\s+\\w+\\s*=", "class\\s+\\w+">>,
                 matchWeights.vanilla, 5)

\* The keys of the scores object, in insertion order.
scoreKeys == <<"webpack", "bundle", "module", "vanilla">>

\* The scores object of detectFileType.
scoresOf(content) ==
  <<fmul(detectWebpackIndicators(content), familyWeights.webpack),
    fmul(detectBundleIndicators(content), familyWeights.bundle),
    fmul(detectModuleIndicators(content), familyWeights.module),
    fmul(detectVanillaIndicators(content), familyWeights.vanilla)>>

\* Math.max(...Object.values(scores))
maxScoreOf(scores) ==
  scores[CHOOSE i \in DOMAIN scores : \A j \in DOMAIN scores : ~fless(scores[i], scores[j])]

\* Faulty variant: the last key with the highest score is taken.
findLastKey(scores, maxScore) ==
  scoreKeys[CHOOSE i \in DOMAIN scores :
              /\ scores[i] = maxScore
              /\ \A j \in DOMAIN scores : j > i => scores[j] # maxScore]

\* Object.keys(scores).find((key) => scores[key] === maxScore)
findKey(scores, maxScore) ==
  scoreKeys[CHOOSE i \in DOMAIN scores :
              /\ scores[i] = maxScore
              /\ \A j \in DOMAIN scores : j < i => scores[j] # maxScore]

\* Faulty variant: the type is assigned only when some family scored.
detectFileTypeWhenScored(analysis, content) ==
  Only({LET maxScore == maxScoreOf(scores)
            fileType == findKey(scores, maxScore)
        IN IF maxScore = FromInt(0) THEN analysis
           ELSE [analysis EXCEPT
                   !.fileType = IF fileType = "webpack" THEN "bundle" ELSE fileType,
                   !.confidence = round(fmul(maxScore, FromInt(100)))] :
          scores \in {scoresOf(content)}})

detectFileType(analysis, content) ==
  Only({LET maxScore == maxScoreOf(scores)
            fileType == findKey(scores, maxScore)
        IN [analysis EXCEPT
              !.fileType = IF fileType = "webpack" THEN "bundle" ELSE fileType,
              !.confidence = round(fmul(maxScore, FromInt(100)))] :
          scores \in {scoresOf(content)}})

\* One ImportInfo; line is the 1-based line of the statement.
ImportInfo(source, type, items, line) ==
  [source |-> source, type |-> type, items |-> items, line |-> line]

\* The matches of a pass of analyzeImports or analyzeExports: the lines of
\* the statements of the kinds the regular expression of the pass matches.
linesOf(content, kinds) ==
  SelectSeq([i \in DOMAIN content |-> i], LAMBDA i : content[i].kind \in kinds)

\* this.analysis.dependencies.push(source), once for each import pushed.
pushSources(dependencies, imports) ==
  dependencies \o SeqMap(LAMBDA i : i.source, imports)

\* The three passes of analyzeImports.  The ES6 expression wants, after the
\* word import and white space, either a brace group followed by from and the
\* quoted source, or the quoted source at once: it matches importNamed and
\* importBare and does not match importDefault.
analyzeImports(analysis, content) ==
  LET es6 == SeqMap(LAMBDA i : ImportInfo(content[i].source, "es6",
                                          IF content[i].kind = "importNamed"
                                          THEN <<"a">> ELSE <<"default">>, i),
                    linesOf(content, {"importNamed", "importBare"}))
      commonjs == SeqMap(LAMBDA i : ImportInfo(content[i].source, "commonjs",
                                               <<"default">>, i),
                         linesOf(content, {"require"}))
      dynamic == SeqMap(LAMBDA i : ImportInfo(content[i].source, "dynamic",
                                              <<"dynamic">>, i),
                        linesOf(content, {"importCall"}))
  IN [analysis EXCEPT
        !.imports = @ \o es6 \o commonjs \o dynamic,
        !.dependencies = pushSources(@, es6 \o commonjs \o dynamic)]

\* The named pass of analyzeExports; the texts of the model hold no default
\* export and no export * from.
analyzeExports(analysis, content) ==
  [analysis EXCEPT
     !.exports = @ \o SeqMap(LAMBDA i : [type |-> "named", items |-> <<"z">>,
                                         line |-> i],
                             linesOf(content, {"exportConst"}))]

\* this.lines = content.split('\n'), its length: a text of n statements, one
\* on a line and none after the last, has n lines, and the empty text has
\* one (empty) line.
linesLength(content) == IF content = <<>> THEN 1 ELSE Len(content)

\* this.lines[i].includes('}') && this.lines[i].trim() === '}', i from 0.
isClosingBrace(content, i) ==
  i + 1 \in DOMAIN content /\ content[i + 1].kind = "closeBrace"

\* getLineNumber(match.index) for a match in statement i: the pieces of the
\* text before the match, split at the line ends.
getLineNumber(content, i) == Len(SubSeq(content, 1, i - 1)) + 1

\* The loop of getLineEnd from index i on.
RECURSIVE getLineEndFrom(_, _)
getLineEndFrom(content, i) ==
  IF ~(i < linesLength(content)) THEN linesLength(content)
  ELSE IF isClosingBrace(content, i) THEN i + 1
  ELSE getLineEndFrom(content, i + 1)

\* Faulty variant: the scan starts at the first line of the text.
getLineEndFromTop(content, startLine) == getLineEndFrom(content, 0)

getLineEnd(content, startLine) == getLineEndFrom(content, startLine)

\* One FunctionInfo or ClassInfo: name, type ("class" for a class) and the
\* two lines.  size, complexity, parameters, methods and properties are
\* left out.
BlockInfo(content, i, type) ==
  [name |-> content[i].source, type |-> type,
   lineStart |-> getLineNumber(content, i),
   lineEnd |-> getLineEnd(content, getLineNumber(content, i))]

\* The three passes of analyzeFunctions.  The first expression matches the
\* words function name ( of a declaration and of an async declaration, the
\* third matches the async declaration again.
analyzeFunctions(analysis, content) ==
  [analysis EXCEPT
     !.functions =
        @ \o SeqMap(LAMBDA i : BlockInfo(content, i, "function"),
                    linesOf(content, {"function", "asyncFunction"}))
          \o SeqMap(LAMBDA i : BlockInfo(content, i, "arrow"),
                    linesOf(content, {"arrow"}))
          \o SeqMap(LAMBDA i : BlockInfo(content, i, "async"),
                    linesOf(content, {"asyncFunction"}))]

analyzeClasses(analysis, content) ==
  [analysis EXCEPT
     !.classes = @ \o SeqMap(LAMBDA i : BlockInfo(content, i, "class"),
                             linesOf(content, {"class"}))]

\* calculateMetrics, as far as totalLines.
calculateMetrics(analysis, content) ==
  [analysis EXCEPT !.codeMetrics = [totalLines |-> linesLength(content)]]

\* analyzeFile after its reset: the passes, on the object this.analysis
\* refers to.
analyzeFile(analysis, content) ==
  calculateMetrics(
    analyzeExports(
      analyzeImports(
        analyzeClasses(
          analyzeFunctions(detectFileType(analysis, content), content),
          content),
        content),
      content),
    content)

\* ------------------------------------------------------------ the records
\* A BundleModule.  gzipSize is meaningful when hasGzip; call and file are
\* history tags (the call and the position in its file list that created the
\* record): no operation of the program reads them.  The path field is left
\* out: nothing modelled reads it.  javascriptAnalysis is NoAnalysis when the
\* module has none.
Module(id, name, size, hasGzip, gzipSize, deps, isExternal, type, javascriptAnalysis, tag) ==
  [id |-> id, name |-> name, size |-> size, hasGzip |-> hasGzip,
   gzipSize |-> gzipSize, dependencies |-> deps, isExternal |-> isExternal,
   type |-> type, hasAnalysis |-> javascriptAnalysis # NoAnalysis,
   javascriptAnalysis |-> javascriptAnalysis, call |-> tag.call, file |-> tag.file]

\* A ChunkData; gzipSize in tenths of a byte.
Chunk(id, name, size, gzipSize, modules, entry, tag) ==
  [id |-> id, name |-> name, size |-> size, gzipSize |-> gzipSize,
   modules |-> modules, entry |-> entry, call |-> tag.call, file |-> tag.file]

\* An OptimizationInsight without its prose; estimatedSavings in tenths of a
\* byte, -1 when the insight has none.
Insight(id, type, impact, category, estimatedSavings) ==
  [id |-> id, type |-> type, impact |-> impact, category |-> category,
   estimatedSavings |-> estimatedSavings]

\* What processing one file leaves: the module and chunk arrays, whether an
\* error is propagating, and whether processJavaScriptFile is to run next.
Outcome(modules, chunks, threw, fallback) ==
  [modules |-> modules, chunks |-> chunks, threw |-> threw, fallback |-> fallback]

\* ------------------------------------------------------------- ingestion
\* Array.prototype.push of one item, and of a spread list of items.
\* Faulty variant: the item goes to the front, as with unshift.
unshift(array, item) == <<item>> \o array

push(array, item) == Append(array, item)

pushAll(array, items) == array \o items

RECURSIVE processWebpackModulesFrom(_, _, _, _)
processWebpackModulesFrom(modules, webpackModules, index, tag) ==
  IF index >= Len(webpackModules) THEN [modules |-> modules, threw |-> FALSE]
  ELSE LET webpackModule == webpackModules[index + 1] IN
       IF webpackModule.bad THEN [modules |-> modules, threw |-> TRUE]
       ELSE processWebpackModulesFrom(
              push(modules,
                Module(IF webpackModule.id # "" THEN webpackModule.id
                       ELSE "module-" \o ToString(index),
                       IF webpackModule.name # "" THEN webpackModule.name
                       ELSE "Module " \o ToString(index),
                       webpackModule.size, webpackModule.hasGzip,
                       webpackModule.gzipSize, webpackModule.dependencies,
                       webpackModule.external, getFileType(webpackModule.name),
                       NoAnalysis, tag)),
              webpackModules, index + 1, tag)

processWebpackModules(modules, webpackModules, tag) ==
  processWebpackModulesFrom(modules, webpackModules, 0, tag)

RECURSIVE processWebpackChunksFrom(_, _, _, _)
processWebpackChunksFrom(chunks, webpackChunks, index, tag) ==
  IF index >= Len(webpackChunks) THEN [chunks |-> chunks, threw |-> FALSE]
  ELSE LET chunk == webpackChunks[index + 1] IN
       IF chunk.bad THEN [chunks |-> chunks, threw |-> TRUE]
       ELSE processWebpackChunksFrom(
              push(chunks,
                Chunk(IF chunk.id # "" THEN chunk.id ELSE "chunk-" \o ToString(index),
                      IF chunk.name # "" THEN chunk.name
                      ELSE "Chunk " \o ToString(index),
                      chunk.size,
                      IF chunk.hasGzip /\ chunk.gzipSize # 0 THEN 10 * chunk.gzipSize
                      ELSE 3 * chunk.size,
                      chunk.modules, chunk.entry, tag)),
              webpackChunks, index + 1, tag)

processWebpackChunks(chunks, webpackChunks, tag) ==
  processWebpackChunksFrom(chunks, webpackChunks, 0, tag)

\* After the await of file.text(): JSON.parse, then the modules or the chunks.
processWebpackBundle(modules, chunks, file, tag) ==
  IF ~file.readable \/ ~file.json THEN Outcome(modules, chunks, TRUE, FALSE)
  ELSE IF file.hasModules
       THEN LET r == processWebpackModules(modules, file.modules, tag)
            IN Outcome(r.modules, chunks, r.threw, FALSE)
  ELSE IF file.hasChunks
       THEN LET r == processWebpackChunks(chunks, file.chunks, tag)
            IN Outcome(modules, r.chunks, r.threw, FALSE)
  ELSE Outcome(modules, chunks, FALSE, FALSE)

RECURSIVE processSourcesFrom(_, _, _, _)
processSourcesFrom(modules, sources, index, tag) ==
  IF index >= Len(sources) THEN [modules |-> modules, threw |-> FALSE]
  ELSE LET s == sources[index + 1] IN
       IF s.bad THEN [modules |-> modules, threw |-> TRUE]
       ELSE processSourcesFrom(
              push(modules,
                Module("sourcemap-" \o ToString(index), s.source,
                       estimateSourceSize(s.source), FALSE, 0, <<>>, FALSE,
                       getFileType(s.source), NoAnalysis, tag)),
              sources, index + 1, tag)

processSourceMap(modules, chunks, file, tag) ==
  IF ~file.readable \/ ~file.json THEN Outcome(modules, chunks, TRUE, FALSE)
  ELSE IF file.hasSources
       THEN LET r == processSourcesFrom(modules, file.sources, 0, tag)
            IN Outcome(r.modules, chunks, r.threw, FALSE)
  ELSE Outcome(modules, chunks, FALSE, FALSE)

\* The values of s in order of first occurrence (insertion order of a Set).
Distinct(s) ==
  LET firsts == SelectSeq([i \in DOMAIN s |-> i],
                          LAMBDA i : \A j \in 1..(i - 1) : s[j] # s[i])
  IN [k \in DOMAIN firsts |-> s[firsts[k]]]

\* Faulty variant: every string-literal argument is a name, repeated or not.
moduleNamesOfAll(requires) ==
  SeqMap(LAMBDA r : r.arg, SelectSeq(requires, LAMBDA r : r.quoted))

\* The names the four patterns add to moduleNames: the string-literal
\* arguments that are not all digits, first those of webpack_require(...),
\* then those of __webpack_require__(...); integer literals match only the
\* last two patterns and are dropped by the digits test.
moduleNamesOf(requires) ==
  LET named(fn) == SelectSeq(requires,
                     LAMBDA r : r.fn = fn /\ r.quoted /\ ~r.numeric)
  IN Distinct(SeqMap(LAMBDA r : r.arg,
                     named("webpack_require") \o named("__webpack_require__")))

\* The five-row table of estimateBundleModules; Dec(15, 100) is the double
\* the literal 0.15 denotes.
moduleTypes ==
  << [name |-> "React Core", sizeRatio |-> Dec(15, 100)],
     [name |-> "React DOM", sizeRatio |-> Dec(12, 100)],
     [name |-> "Application Code", sizeRatio |-> Dec(25, 100)],
     [name |-> "Dependencies", sizeRatio |-> Dec(35, 100)],
     [name |-> "Runtime", sizeRatio |-> Dec(13, 100)] >>

\* The literal 0.3 of the gzip estimate of the main-bundle chunk.
gzipEstimateRatio == Dec(3, 10)

\* Faulty variant: the sizes are rounded to the nearest integer.
estimateBundleModulesRounded(length, tag) ==
  [i \in 1..5 |->
      Module("estimated-" \o ToString(i - 1), moduleTypes[i].name,
             round(fmul(FromInt(length), moduleTypes[i].sizeRatio)),
             FALSE, 0, <<>>, FALSE, "js", NoAnalysis, tag)]

estimateBundleModules(length, tag) ==
  [i \in 1..5 |->
      Module("estimated-" \o ToString(i - 1), moduleTypes[i].name,
             floor(fmul(FromInt(length), moduleTypes[i].sizeRatio)),
             FALSE, 0, <<>>, FALSE, "js", NoAnalysis, tag)]

parseCompiledWebpackBundle(modules, chunks, file, tag) ==
  LET moduleNames == moduleNamesOf(file.requires) IN
  IF Len(moduleNames) > 0
  THEN LET moduleSize == file.length \div Len(moduleNames)
           new == [i \in 1..Len(moduleNames) |->
                     Module("compiled-" \o ToString(i - 1), moduleNames[i],
                            moduleSize, FALSE, 0, <<>>, FALSE,
                            getFileType(moduleNames[i]), NoAnalysis, tag)]
           chunkData == Chunk("main-bundle", file.name, file.length,
                              10 * floor(fmul(FromInt(file.length), gzipEstimateRatio)),
                              SeqMap(LAMBDA m : m.id, new), TRUE, tag)
       IN Outcome(pushAll(modules, new), push(chunks, chunkData), FALSE, FALSE)
  ELSE Outcome(pushAll(modules, estimateBundleModules(file.length, tag)), chunks,
               FALSE, FALSE)

\* The text holds one of the four loader markers; every require call does.
hasWebpackIndicator(file) == file.marker \/ file.requires # <<>>

\* Faulty variant: a parsed bundle is answered false as well, and analysed.
tryParseAsWebpackBundleThenAnalyze(modules, chunks, file, tag) ==
  IF ~file.readable THEN Outcome(modules, chunks, FALSE, TRUE)
  ELSE IF hasWebpackIndicator(file)
       THEN [parseCompiledWebpackBundle(modules, chunks, file, tag)
               EXCEPT !.fallback = TRUE]
  ELSE Outcome(modules, chunks, FALSE, TRUE)

\* After the await of file.text(); a rejected read is caught here and
\* answered false, which sends the file to processJavaScriptFile.
tryParseAsWebpackBundle(modules, chunks, file, tag) ==
  IF ~file.readable THEN Outcome(modules, chunks, FALSE, TRUE)
  ELSE IF hasWebpackIndicator(file)
       THEN parseCompiledWebpackBundle(modules, chunks, file, tag)
  ELSE Outcome(modules, chunks, FALSE, TRUE)

\* After the await of file.text() in processJavaScriptFile: a new
\* JavaScriptAnalyzer analyses the text.
processJavaScriptFile(modules, chunks, file, tag) ==
  IF ~file.readable THEN Outcome(modules, chunks, TRUE, FALSE)
  ELSE Only({Outcome(push(modules,
                       Module("js-" \o file.name, file.name, file.size, FALSE, 0,
                              jsAnalysis.dependencies, FALSE, "js", jsAnalysis,
                              tag)),
                     chunks, FALSE, FALSE) :
             jsAnalysis \in {analyzeFile(createEmptyAnalysis, file.text)}})

\* The dispatch of processFile on the extension, up to the first resumption.
dispatch(modules, chunks, file, tag) ==
  LET extension == Extension(file.name) IN
  IF extension = "json" THEN processWebpackBundle(modules, chunks, file, tag)
  ELSE IF extension = "map" THEN processSourceMap(modules, chunks, file, tag)
  ELSE IF extension = "js" THEN tryParseAsWebpackBundle(modules, chunks, file, tag)
  ELSE Outcome(modules, chunks, FALSE, FALSE)

\* Faulty variant: the error is logged and thrown again.
rethrowError(outcome) == outcome

\* The catch block of processFile: the error is logged and swallowed.
catchError(outcome) == [outcome EXCEPT !.threw = FALSE]

\* --------------------------------------------------------------- insights
\* Faulty variant: the sum leaves out the modules that are not JavaScript.
totalSizeOfJsOnly(modules) ==
  SumSeq(SeqMap(LAMBDA m : IF m.type = "js" THEN m.size ELSE 0, modules))

\* reduce((sum, m) => sum + m.size, 0)
totalSizeOf(modules) == SumSeq(SeqMap(LAMBDA m : m.size, modules))

\* m.gzipSize || m.size * 0.3, a double.  The || takes the estimate whenever
\* gzipSize is falsy: absent, or 0.
gzipOrEstimate(m) ==
  IF m.hasGzip /\ m.gzipSize # 0 THEN FromInt(m.gzipSize)
  ELSE fmul(FromInt(m.size), gzipEstimateRatio)

\* reduce((sum, m) => sum + ..., 0) over the first k terms: the terms are
\* added from the left, each sum rounded.
RECURSIVE reduceSum(_, _)
reduceSum(terms, k) ==
  IF k = 0 THEN FromInt(0) ELSE fadd(reduceSum(terms, k - 1), terms[k])

\* reduce((sum, m) => sum + (m.gzipSize || m.size * 0.3), 0)
totalGzipSizeOf(modules) ==
  Only({reduceSum(terms, Len(terms)) : terms \in {SeqMap(gzipOrEstimate, modules)}})

\* Array.prototype.sort((a, b) => b.size - a.size): stable, largest first.
\* An item's place is one more than the number of items that go before it:
\* the larger ones, and the equal ones that stood before it.
sortBySizeDesc(s) ==
  LET place(i) == 1 + Cardinality({j \in DOMAIN s :
                                     \/ s[j].size > s[i].size
                                     \/ s[j].size = s[i].size /\ j < i})
  IN [k \in DOMAIN s |-> s[CHOOSE i \in DOMAIN s : place(i) = k]]

\* A chain of array methods: receiver is what the array the chain started
\* on holds, value is the array the chain has in hand, and own tells that
\* value is an array the chain created and not the receiver itself.
onArray(array) == [receiver |-> array, value |-> array, own |-> FALSE]

\* Array.prototype.filter returns a new array, of the elements that pass
\* the test, and leaves its own alone.
filter(chain, passing) ==
  [receiver |-> chain.receiver,
   value |-> SelectSeq(chain.value, LAMBDA e : e \in passing),
   own |-> TRUE]

\* Array.prototype.sort orders the array it is called on, in place, and
\* returns that same array.
sort(chain) ==
  [receiver |-> IF chain.own THEN chain.receiver ELSE sortBySizeDesc(chain.value),
   value |-> sortBySizeDesc(chain.value),
   own |-> chain.own]

\* Faulty variant: this.modules.sort(...).filter(...), the sort on the array
\* of the instance.
largeModulesSortedFirst(modules) ==
  filter(sort(onArray(modules)), {m \in Range(modules) : m.size > 100 * 1024})

\* this.modules.filter((m) => m.size > 100 * 1024).sort(...)
largeModulesOf(modules) ==
  sort(filter(onArray(modules), {m \in Range(modules) : m.size > 100 * 1024}))

\* this.chunks.filter((c) => c.size > 200 * 1024).sort(...)
largeChunksOf(chunks) ==
  sort(filter(onArray(chunks), {c \in Range(chunks) : c.size > 200 * 1024}))

\* Faulty variant: the load time is taken at the slow-3G rate of 780 Kbps,
\* (totalSize * 8) / (780 * 1024) > 3.
fast3GOver3sAtSlowRate(totalSize) == totalSize * 8 > 3 * 780 * 1024

\* (totalSize * 8) / (1.6 * 1024 * 1024) > 3
fast3GOver3s(totalSize) == totalSize * 8 * 10 > 3 * 16 * 1024 * 1024

\* ((totalSize - totalGzipSize) / totalSize) * 100, for totalSize > 0 and
\* totalGzipSize <= totalSize.
compressionPercent(totalSize, totalGzipSize) ==
  fmul(fdiv(fsub(FromInt(totalSize), totalGzipSize), totalSize), FromInt(100))

\* compressionRatio < percent and compressionRatio > percent, for a
\* percentage that is not negative.  For totalSize = 0 the quotient is NaN
\* and every comparison is false; for totalGzipSize > totalSize it is
\* negative.
compressionRatioBelow(totalSize, totalGzipSize, percent) ==
  /\ totalSize > 0
  /\ \/ fless(FromInt(totalSize), totalGzipSize)
     \/ fless(compressionPercent(totalSize, totalGzipSize), FromInt(percent))

compressionRatioAbove(totalSize, totalGzipSize, percent) ==
  /\ totalSize > 0
  /\ ~fless(FromInt(totalSize), totalGzipSize)
  /\ fless(FromInt(percent), compressionPercent(totalSize, totalGzipSize))

\* Faulty variant: the three checks chained with else, so that only one fires.
generatePerformanceInsightsExclusive(totalSize, totalGzipSize) ==
  IF fast3GOver3s(totalSize)
  THEN <<Insight("slow-3g-load", "warning", "high", "performance", -1)>>
  ELSE IF compressionRatioBelow(totalSize, totalGzipSize, 30)
  THEN <<Insight("poor-compression", "warning", "medium", "performance", -1)>>
  ELSE IF totalSize > 1024 * 1024
  THEN <<Insight("large-bundle-performance", "warning", "high", "performance", -1)>>
  ELSE IF totalSize > 500 * 1024
  THEN <<Insight("medium-bundle-performance", "info", "medium", "performance", -1)>>
  ELSE <<Insight("good-bundle-size", "success", "low", "performance", -1)>>

generatePerformanceInsights(totalSize, totalGzipSize) ==
  (IF fast3GOver3s(totalSize)
   THEN <<Insight("slow-3g-load", "warning", "high", "performance", -1)>>
   ELSE <<>>)
  \o
  (IF compressionRatioBelow(totalSize, totalGzipSize, 30)
   THEN <<Insight("poor-compression", "warning", "medium", "performance", -1)>>
   ELSE <<>>)
  \o
  (IF totalSize > 1024 * 1024
   THEN <<Insight("large-bundle-performance", "warning", "high", "performance", -1)>>
   ELSE IF totalSize > 500 * 1024
   THEN <<Insight("medium-bundle-performance", "info", "medium", "performance", -1)>>
   ELSE <<Insight("good-bundle-size", "success", "low", "performance", -1)>>)

\* Faulty variant: ten modules already count as well-modularized.
moduleCountInsightFromTen(count) ==
  IF count >= 10
  THEN <<Insight("module-count", "info", "low", "code-splitting", -1)>>
  ELSE IF count <= 5
  THEN <<Insight("module-count-low", "warning", "medium", "code-splitting", -1)>>
  ELSE <<>>

\* The module-count rule of generateBasicInsights, on this.modules.length.
moduleCountInsight(count) ==
  IF count > 10
  THEN <<Insight("module-count", "info", "low", "code-splitting", -1)>>
  ELSE IF count <= 5
  THEN <<Insight("module-count-low", "warning", "medium", "code-splitting", -1)>>
  ELSE <<>>

generateBasicInsights(modules) ==
  Only({LET jsModules == SelectSeq(modules, LAMBDA m : m.type = "js")
            fileTypes == {m.type : m \in Range(modules)}
        IN (IF Len(jsModules) > 0
            THEN <<Insight("bundle-composition", "info", "low", "performance", -1)>>
            ELSE <<>>)
           \o
           (IF compressionRatioAbove(totalSize, totalGzipSize, 0)
            THEN <<Insight("compression-efficiency", "success", "low",
                           "performance", -1)>>
            ELSE <<>>)
           \o
           moduleCountInsight(Len(modules))
           \o
           generatePerformanceInsights(totalSize, totalGzipSize)
           \o
           (IF Cardinality(fileTypes) > 2
            THEN <<Insight("file-type-diversity", "info", "low", "performance", -1)>>
            ELSE <<>>) :
          totalSize \in {totalSizeOf(modules)},
          totalGzipSize \in {totalGzipSizeOf(modules)}})

\* Faulty variant: a module of exactly 100 KB is large, one of exactly 500 KB
\* is of high impact.
analyzeLargeDependenciesInclusive(modules) ==
  LET largeModules ==
        sortBySizeDesc(SelectSeq(modules, LAMBDA m : m.size >= 100 * 1024))
  IN SeqMap(LAMBDA m : Insight("large-dep-" \o m.id, "warning",
                               IF m.size >= 500 * 1024 THEN "high" ELSE "medium",
                               "dependency", 3 * m.size),
            largeModules)

analyzeLargeDependencies(modules) ==
  LET largeModules == largeModulesOf(modules).value
  IN SeqMap(LAMBDA m : Insight("large-dep-" \o m.id, "warning",
                               IF m.size > 500 * 1024 THEN "high" ELSE "medium",
                               "dependency", 3 * m.size),
            largeModules)

analyzeCodeSplittingOpportunities(chunks) ==
  LET largeChunks == largeChunksOf(chunks).value
  IN SeqMap(LAMBDA c : Insight("code-split-" \o c.id, "info", "medium",
                               "code-splitting", 4 * c.size),
            largeChunks)

analyzeTreeShakingPotential(modules) ==
  IF Len(SelectSeq(modules, LAMBDA m : m.type = "js")) > 50
  THEN <<Insight("tree-shaking", "info", "medium", "tree-shaking", -1)>>
  ELSE <<>>

\* moduleNames.filter((name, index) => moduleNames.indexOf(name) !== index)
duplicatesOf(modules) ==
  SelectSeq([i \in DOMAIN modules |-> [name |-> modules[i].name, index |-> i]],
            LAMBDA e : \E j \in 1..(e.index - 1) : modules[j].name = e.name)

\* Faulty variant: the names that occur more than once are counted, each once.
analyzeDuplicatesDistinct(modules) ==
  LET duplicates == {e.name : e \in Range(duplicatesOf(modules))}
  IN IF duplicates # {}
     THEN <<[count |-> Cardinality(duplicates)]
              @@ Insight("duplicates", "warning", "medium", "duplicates", -1)>>
     ELSE <<>>

\* count is the number the description of the insight reports:
\* duplicates.length.
analyzeDuplicates(modules) ==
  IF Len(duplicatesOf(modules)) > 0
  THEN <<[count |-> Len(duplicatesOf(modules))]
           @@ Insight("duplicates", "warning", "medium", "duplicates", -1)>>
  ELSE <<>>

\* The insights array generateInsights fills, from the arrays the instance
\* fields refer to.
generateInsights(modules, chunks) ==
  generateBasicInsights(modules)
  \o analyzeLargeDependencies(modules)
  \o analyzeCodeSplittingOpportunities(chunks)
  \o analyzeTreeShakingPotential(modules)
  \o analyzeDuplicates(modules)

\* ------------------------------------------------------------- the state
\* The calls of analyzeFiles on the one exported BundleAnalyzer instance.
Calls == {1, 2}

\* References of the arrays.  The constructor's arrays are 0; call c allocates
\* module array c and chunk array c on entry, insight array 2c - 1 on entry and
\* insight array 2c in generateInsights.
ArrayRefs == {0} \cup Calls
InsightRefs == {0} \cup {2 * c - 1 : c \in Calls} \cup {2 * c : c \in Calls}

VARIABLES
  this_modules,    \* this.modules: a reference into mheap
  this_chunks,     \* this.chunks: a reference into cheap
  this_insights,   \* this.insights: a reference into iheap
  mheap,           \* the BundleModule[] arrays
  cheap,           \* the ChunkData[] arrays
  iheap,           \* the OptimizationInsight[] arrays
  pc,              \* where each call stands
  files,           \* the argument of each call
  idx,             \* the position of the for loop of each call (1-based)
  result,          \* the BundleData each call returned
  bundleData,      \* the BundleData a PerformanceAnalyzer was constructed with
  performanceData, \* what its analyze() returned
  content,         \* this.content of each JavaScriptAnalyzer
  analysis,        \* this.analysis of each JavaScriptAnalyzer: a reference
  analyses,        \* the JavaScriptAnalysis objects, by reference
  returned,        \* history: the calls of analyzeFile and what they returned
  selectedFiles,   \* the selectedFiles state of the FileUpload component
  error,           \* its error state
  pending,         \* the onFileUpload promises handleSubmit is awaiting
  handed           \* history: the last list handed to onFileUpload

vars == <<this_modules, this_chunks, this_insights, mheap, cheap, iheap,
          pc, files, idx, result, bundleData, performanceData,
          content, analysis, analyses, returned,
         selectedFiles, error, pending, handed>>

engineVars == <<this_modules, this_chunks, this_insights, mheap, cheap, iheap,
                pc, files, idx, result>>

scoreVars == <<bundleData, performanceData>>

analyzerVars == <<content, analysis, analyses, returned>>

uploadVars == <<selectedFiles, error, pending, handed>>

\* The JavaScriptAnalyzer instances of the model.
Analyzers == {1, 2}

\* The constructors have run: each instance holds an empty analysis of its own.
AnalyzerInit ==
  /\ content = [a \in Analyzers |-> <<>>]
  /\ analysis = [a \in Analyzers |-> a]
  /\ analyses = [a \in Analyzers |-> createEmptyAnalysis]
  /\ returned = <<>>

\* null, for a state that holds a string or null.
null == "null"

\* The FileUpload component after its first render: nothing selected, no
\* error; nothing was handed to onFileUpload yet.
UploadInit ==
  /\ selectedFiles = <<>>
  /\ error = null
  /\ pending = 0
  /\ handed = [called |-> FALSE, files |-> <<>>]

NoResult ==
  [totalSize |-> 0, totalGzipSize |-> FromInt(0), modules |-> 0, chunks |-> 0,
   insights |-> 0, metadata |-> [fileCount |-> 0, fileTypes |-> <<>>]]

NoBundleData ==
  [totalSize |-> 0, totalGzipSize |-> FromInt(0), modules |-> <<>>, chunks |-> <<>>]

NoPerformanceData ==
  [analyzed |-> FALSE, performanceScore |-> 0,
   criticalPath |-> [blockingModules |-> <<>>]]

EngineInit ==
  /\ this_modules = 0
  /\ this_chunks = 0
  /\ this_insights = 0
  /\ mheap = [r \in ArrayRefs |-> <<>>]
  /\ cheap = [r \in ArrayRefs |-> <<>>]
  /\ iheap = [r \in InsightRefs |-> <<>>]
  /\ pc = [c \in Calls |-> "idle"]
  /\ files = [c \in Calls |-> <<>>]
  /\ idx = [c \in Calls |-> 0]
  /\ result = [c \in Calls |-> NoResult]

Init ==
  /\ EngineInit
  /\ bundleData = NoBundleData
  /\ performanceData = NoPerformanceData
  /\ AnalyzerInit
  /\ UploadInit

\* Faulty variant: the file types are listed once each, and only the files
\* that left a module are counted.
BundleDataOfContributing(modulesRef, chunksRef, insightsRef, modules, fileList) ==
  [totalSize |-> totalSizeOf(modules),
   totalGzipSize |-> totalGzipSizeOf(modules),
   modules |-> modulesRef,
   chunks |-> chunksRef,
   insights |-> insightsRef,
   metadata |-> [fileCount |-> Cardinality({m.file : m \in Range(modules)}),
                 fileTypes |-> Distinct(SeqMap(LAMBDA f : Extension(f.name),
                                               fileList))]]

\* The object literal analyzeFiles returns: the totals are computed from the
\* array this.modules refers to, the lists are the references themselves.
BundleDataOf(modulesRef, chunksRef, insightsRef, modules, fileList) ==
  [totalSize |-> totalSizeOf(modules),
   totalGzipSize |-> totalGzipSizeOf(modules),
   modules |-> modulesRef,
   chunks |-> chunksRef,
   insights |-> insightsRef,
   metadata |-> [fileCount |-> Len(fileList),
                 fileTypes |-> SeqMap(LAMBDA f : Extension(f.name), fileList)]]

\* Faulty variant: the call goes on with the arrays the fields refer to,
\* instead of new ones.
AnalyzeFilesKeepingArrays(c, fileList) ==
  /\ pc[c] = "idle"
  /\ files' = [files EXCEPT ![c] = fileList]
  /\ UNCHANGED <<this_modules, this_chunks, mheap, cheap>>
  /\ IF fileList = <<>>
     THEN /\ this_insights' = 2 * c
          /\ iheap' = [iheap EXCEPT
                         ![2 * c - 1] = <<>>,
                         ![2 * c] = generateInsights(mheap[this_modules],
                                                     cheap[this_chunks])]
          /\ result' = [result EXCEPT
                          ![c] = BundleDataOf(this_modules, this_chunks, 2 * c,
                                              mheap[this_modules], fileList)]
          /\ idx' = [idx EXCEPT ![c] = 1]
          /\ pc' = [pc EXCEPT ![c] = "done"]
     ELSE /\ this_insights' = 2 * c - 1
          /\ iheap' = [iheap EXCEPT ![2 * c - 1] = <<>>]
          /\ idx' = [idx EXCEPT ![c] = 1]
          /\ pc' = [pc EXCEPT ![c] = "read"]
          /\ UNCHANGED result
  /\ UNCHANGED <<scoreVars, analyzerVars, uploadVars>>

\* analyzeFiles from its entry to its first await.  With no file the call
\* runs to its return without suspending.
AnalyzeFiles(c, fileList) ==
  /\ pc[c] = "idle"
  /\ files' = [files EXCEPT ![c] = fileList]
  /\ this_modules' = c
  /\ this_chunks' = c
  /\ mheap' = [mheap EXCEPT ![c] = <<>>]
  /\ cheap' = [cheap EXCEPT ![c] = <<>>]
  /\ IF fileList = <<>>
     THEN /\ this_insights' = 2 * c
          /\ iheap' = [iheap EXCEPT ![2 * c - 1] = <<>>,
                                    ![2 * c] = generateInsights(<<>>, <<>>)]
          /\ result' = [result EXCEPT
                          ![c] = BundleDataOf(c, c, 2 * c, <<>>, fileList)]
          /\ idx' = [idx EXCEPT ![c] = 1]
          /\ pc' = [pc EXCEPT ![c] = "done"]
     ELSE /\ this_insights' = 2 * c - 1
          /\ iheap' = [iheap EXCEPT ![2 * c - 1] = <<>>]
          /\ idx' = [idx EXCEPT ![c] = 1]
          /\ pc' = [pc EXCEPT ![c] = "read"]
          /\ UNCHANGED result
  /\ UNCHANGED <<scoreVars, analyzerVars, uploadVars>>

\* What follows the processing of file idx[c]: an error that left processFile
\* rejects the call; otherwise the loop goes to the next file or ends.
AfterFile(c, outcome) ==
  /\ mheap' = [mheap EXCEPT ![this_modules] = outcome.modules]
  /\ cheap' = [cheap EXCEPT ![this_chunks] = outcome.chunks]
  /\ IF outcome.threw
     THEN /\ pc' = [pc EXCEPT ![c] = "rejected"]
          /\ UNCHANGED idx
     ELSE IF outcome.fallback
     THEN /\ pc' = [pc EXCEPT ![c] = "readJs"]
          /\ UNCHANGED idx
     ELSE /\ idx' = [idx EXCEPT ![c] = idx[c] + 1]
          /\ pc' = [pc EXCEPT ![c] =
                      IF idx[c] = Len(files[c]) THEN "finish" ELSE "read"]
  /\ UNCHANGED <<this_modules, this_chunks, this_insights, iheap, files, result>>
  /\ UNCHANGED <<scoreVars, analyzerVars, uploadVars>>

\* processFile resumed after its first await (the read of the file's text, or
\* for an extension it does not dispatch on, the await of processFile itself).
ProcessFile(c) ==
  /\ pc[c] = "read"
  /\ \E outcome \in {catchError(dispatch(mheap[this_modules], cheap[this_chunks],
                                          files[c][idx[c]],
                                          [call |-> c, file |-> idx[c]]))} :
       AfterFile(c, outcome)

\* processJavaScriptFile resumed after its read of the file's text.
ProcessJavaScriptFile(c) ==
  /\ pc[c] = "readJs"
  /\ \E outcome \in {catchError(processJavaScriptFile(
                                   mheap[this_modules], cheap[this_chunks],
                                   files[c][idx[c]],
                                   [call |-> c, file |-> idx[c]]))} :
       AfterFile(c, outcome)

\* analyzeFiles after its loop: generateInsights, with what its sorts leave
\* in the arrays of the instance, then the return.
AnalyzeFilesReturn(c) ==
  /\ pc[c] = "finish"
  /\ this_insights' = 2 * c
  /\ \E insights \in {generateInsights(mheap[this_modules], cheap[this_chunks])},
        modules \in {largeModulesOf(mheap[this_modules]).receiver},
        chunks \in {largeChunksOf(cheap[this_chunks]).receiver} :
       \E data \in {BundleDataOf(this_modules, this_chunks, 2 * c, modules, files[c])} :
         /\ iheap' = [iheap EXCEPT ![2 * c] = insights]
         /\ mheap' = [mheap EXCEPT ![this_modules] = modules]
         /\ cheap' = [cheap EXCEPT ![this_chunks] = chunks]
         /\ result' = [result EXCEPT ![c] = data]
  /\ pc' = [pc EXCEPT ![c] = "done"]
  /\ UNCHANGED <<this_modules, this_chunks, files, idx>>
  /\ UNCHANGED <<scoreVars, analyzerVars, uploadVars>>

\* One call of analyzeFiles on the instance, on any file list.
Next ==
  \/ \E fileList \in FileLists : AnalyzeFiles(1, fileList)
  \/ ProcessFile(1)
  \/ ProcessJavaScriptFile(1)
  \/ AnalyzeFilesReturn(1)

Spec == Init /\ [][Next]_vars

\* The scheduling of the host: a settled promise is resumed.
FairSpec ==
  /\ Spec
  /\ WF_vars(ProcessFile(1))
  /\ WF_vars(ProcessJavaScriptFile(1))
  /\ WF_vars(AnalyzeFilesReturn(1))

\* Two calls on the instance, the second entered at any moment after the
\* first was entered: while the first is suspended, or after its return.
OverlapFiles == {StatsJson, ChunksJson, BundleJs, PlainJs}

OverlapLists == SeqsUpTo(OverlapFiles, MaxFiles)

NextOverlap ==
  \/ \E fileList \in OverlapLists : AnalyzeFiles(1, fileList)
  \/ \E fileList \in OverlapLists : pc[1] # "idle" /\ AnalyzeFiles(2, fileList)
  \/ \E c \in Calls : ProcessFile(c)
  \/ \E c \in Calls : ProcessJavaScriptFile(c)
  \/ \E c \in Calls : AnalyzeFilesReturn(c)

SpecOverlap == Init /\ [][NextOverlap]_vars

\* Two calls on the instance, the second entered after the first returned.
NextSequential ==
  \/ \E fileList \in OverlapLists : AnalyzeFiles(1, fileList)
  \/ \E fileList \in OverlapLists : pc[1] = "done" /\ AnalyzeFiles(2, fileList)
  \/ \E c \in Calls : ProcessFile(c)
  \/ \E c \in Calls : ProcessJavaScriptFile(c)
  \/ \E c \in Calls : AnalyzeFilesReturn(c)

SpecSequential == Init /\ [][NextSequential]_vars

\* ----------------------------------------------------- PerformanceAnalyzer
\* Faulty variant: only the lower bound is applied.
clampScoreBelow(score) == Max2(0, score)

\* Math.max(0, Math.min(100, Math.round(score))); score is an integer here,
\* every penalty and the bonus being integers, so Math.round leaves it as is.
clampScore(score) == Max2(0, Min2(100, score))

\* Faulty variant: the size tiers are tested one after the other, not as an
\* else-if chain, so that their penalties add up.
sizePenaltyCumulative(totalSize) ==
  (IF totalSize > 1024 * 1024 THEN 30 ELSE 0)
  + (IF totalSize > 500 * 1024 THEN 20 ELSE 0)
  + (IF totalSize > 250 * 1024 THEN 10 ELSE 0)

\* Bundle size penalties.
sizePenalty(totalSize) ==
  IF totalSize > 1024 * 1024 THEN 30
  ELSE IF totalSize > 500 * 1024 THEN 20
  ELSE IF totalSize > 250 * 1024 THEN 10
  ELSE 0

\* The literals 0.4 and 0.3 of the compression penalties.
poorCompressionRatio == Dec(4, 10)

goodCompressionRatio == Dec(3, 10)

\* Compression efficiency: compressionRatio = totalGzipSize / totalSize
\* against 0.4 and 0.3, skipped when totalGzipSize is falsy or totalSize is 0.
compressionPenalty(totalSize, totalGzipSize) ==
  IF totalGzipSize # FromInt(0) /\ totalSize > 0
  THEN Only({IF fless(poorCompressionRatio, compressionRatio) THEN 15
             ELSE IF fless(goodCompressionRatio, compressionRatio) THEN 5
             ELSE 0 :
               compressionRatio \in {fdiv(totalGzipSize, totalSize)}})
  ELSE 0

\* Module count penalties.
modulePenalty(count) ==
  IF count > 200 THEN 15
  ELSE IF count > 100 THEN 10
  ELSE IF count > 50 THEN 5
  ELSE 0

\* Faulty variant: the lower threshold is tested first and hides the higher one.
externalPenaltyLowFirst(count) ==
  IF count > 20 THEN 5
  ELSE IF count > 30 THEN 10
  ELSE 0

\* External dependency penalties.
externalPenalty(count) ==
  IF count > 30 THEN 10
  ELSE IF count > 20 THEN 5
  ELSE 0

\* Code splitting bonus.
chunkBonus(count) == IF count > 1 THEN 10 ELSE 0

\* The score before the clamp.
rawPerformanceScore(data) ==
  LET externalModules == SelectSeq(data.modules, LAMBDA m : m.isExternal)
  IN 100 - sizePenalty(data.totalSize)
         - compressionPenalty(data.totalSize, data.totalGzipSize)
         - modulePenalty(Len(data.modules))
         - externalPenalty(Len(externalModules))
         + chunkBonus(Len(data.chunks))

calculatePerformanceScore(data) == clampScore(rawPerformanceScore(data))

\* The aggregates the scoring engine is tried on: every combination of the
\* sizes, compression ratios and counts around the thresholds of the score.
ScoreSizes == {0, 250 * 1024, 250 * 1024 + 1, 500 * 1024, 500 * 1024 + 1,
               1024 * 1024, 1024 * 1024 + 1, 1572864}

\* The values of totalGzipSize for a total size: none, the estimate, and the
\* whole numbers of bytes on either side of three and of four tenths of the
\* total, and the total itself.
ScoreGzipSizes(totalSize) ==
  {FromInt(0), fmul(FromInt(totalSize), gzipEstimateRatio), FromInt(totalSize)}
    \cup {FromInt((k * totalSize) \div 10 + d) : k \in {3, 4}, d \in {0, 1}}

ScoreModuleCounts == {0, 50, 51, 100, 101, 200, 201, 250}
ScoreExternalCounts == {0, 20, 21, 30, 31, 35}
ScoreChunkCounts == {0, 1, 2}

ScoreModules(count, external) ==
  [i \in 1..count |->
     Module("module-" \o ToString(i - 1), "Module " \o ToString(i - 1), 0, FALSE, 0,
            <<>>, i <= external, "other", NoAnalysis, [call |-> 0, file |-> 0])]

ScoreChunks(count) ==
  [i \in 1..count |->
     Chunk("chunk-" \o ToString(i - 1), "Chunk " \o ToString(i - 1), 0, 0, <<>>,
           FALSE, [call |-> 0, file |-> 0])]

\* new PerformanceAnalyzer(bundleData), on any of the aggregates above.
InitScore ==
  /\ EngineInit
  /\ \E totalSize \in ScoreSizes, count \in ScoreModuleCounts,
        external \in ScoreExternalCounts, chunkCount \in ScoreChunkCounts :
       \E totalGzipSize \in ScoreGzipSizes(totalSize) :
         /\ external <= count
         /\ bundleData = [totalSize |-> totalSize, totalGzipSize |-> totalGzipSize,
                          modules |-> ScoreModules(count, external),
                          chunks |-> ScoreChunks(chunkCount)]
  /\ performanceData = NoPerformanceData
  /\ AnalyzerInit
  /\ UploadInit

\* Array.prototype.slice(begin, end)
slice(array, begin, end) == SubSeq(array, begin + 1, Min2(end, Len(array)))

\* The literal 0.1 of the filter of analyzeCriticalPath.
blockingRatio == Dec(1, 10)

\* module.size > totalSize * 0.1, the product being a double.
isBlocking(module, threshold) == fless(threshold, FromInt(module.size))

\* Faulty variant: the first five are taken before the sort.
analyzeCriticalPathSliceFirst(data) ==
  Only({[blockingModules |->
           sortBySizeDesc(slice(SelectSeq(data.modules,
                                          LAMBDA m : isBlocking(m, threshold)),
                                0, 5))] :
          threshold \in {fmul(FromInt(data.totalSize), blockingRatio)}})

\* modules.filter((module) => module.size > totalSize * 0.1).sort(...)
blockingChain(data) ==
  Only({sort(filter(onArray(data.modules),
                    {m \in Range(data.modules) : isBlocking(m, threshold)})) :
          threshold \in {fmul(FromInt(data.totalSize), blockingRatio)}})

\* analyzeCriticalPath, as far as the blocking modules: filter, sort, slice.
analyzeCriticalPath(data) ==
  [blockingModules |-> slice(blockingChain(data).value, 0, 5)]

\* analyze(), as far as the critical path and the score.
Analyze ==
  /\ ~performanceData.analyzed
  /\ performanceData' = [analyzed |-> TRUE,
                         performanceScore |-> calculatePerformanceScore(bundleData),
                         criticalPath |-> analyzeCriticalPath(bundleData)]
  /\ bundleData' = [bundleData EXCEPT !.modules = blockingChain(bundleData).receiver]
  /\ UNCHANGED <<engineVars, analyzerVars, uploadVars>>

NextScore == Analyze

SpecScore == InitScore /\ [][NextScore]_vars

\* ------------------------------------------------------------ the claims
\* The lists of the aggregate a call returned, read through its references.
ModulesOf(c) == mheap[result[c].modules]
ChunksOf(c) == cheap[result[c].chunks]
InsightsOf(c) == iheap[result[c].insights]

InsightIds(c) == SeqMap(LAMBDA i : i.id, InsightsOf(c))

Count(s, P(_)) == Cardinality({i \in DOMAIN s : P(s[i])})

\* An error is raised while the file is processed (before any catch).
Raises(file) ==
  LET tag == [call |-> 0, file |-> 0]
  IN \E first \in {dispatch(<<>>, <<>>, file, tag)} :
       \/ first.threw
       \/ first.fallback /\ processJavaScriptFile(<<>>, <<>>, file, tag).threw

\* What the file adds to empty arrays when it is processed on its own.
Contribution(file, tag) ==
  Only({IF first.fallback THEN processJavaScriptFile(<<>>, <<>>, file, tag)
        ELSE first : first \in {dispatch(<<>>, <<>>, file, tag)}})

\* What a call on fileList returns from an engine no other call touches.
RECURSIVE Alone(_, _, _)
Alone(fileList, c, n) ==
  IF n = 0 THEN [modules |-> <<>>, chunks |-> <<>>]
  ELSE LET before == Alone(fileList, c, n - 1)
           own == Contribution(fileList[n], [call |-> c, file |-> n])
       IN [modules |-> before.modules \o own.modules,
           chunks |-> before.chunks \o own.chunks]

RECURSIVE SizeSum(_, _)
SizeSum(modules, n) ==
  IF n = 0 THEN 0 ELSE SizeSum(modules, n - 1) + modules[n].size

\* C1: the aggregate a call returns has totalSize equal to the sum of the
\* sizes of the modules in its modules list, for every input file list
\* (the empty list and lists with failing or skipped files included).
C1_TotalSizeIsSumOfModuleSizes ==
  \A c \in Calls :
    pc[c] = "done" =>
      result[c].totalSize = SizeSum(ModulesOf(c), Len(ModulesOf(c)))

C1_Witness ==
  /\ pc[1] = "done"
  /\ files[1] = <<BadJson, BundleJs>>
  /\ Len(ModulesOf(1)) = 2
  /\ result[1].totalSize = 700000

\* C2: an error raised while a file is processed leaves no module and no
\* chunk derived from that file in the arrays.
C2_FailedFileLeavesNothing ==
  \A c \in Calls :
    /\ \A m \in Range(mheap[c]) : ~Raises(files[m.call][m.file])
    /\ \A k \in Range(cheap[c]) : ~Raises(files[k.call][k.file])

\* C3: a call always completes and returns an aggregate, whatever files
\* fail, and every file that succeeds after a failed one contributes its
\* modules and chunks.
C3_FailuresNeverStopTheRun ==
  /\ (pc[1] \in {"read", "readJs", "finish"}) ~> (pc[1] = "done")
  /\ [](pc[1] = "done" =>
          \A j \in 1..Len(files[1]) :
            (~Raises(files[1][j]) /\ \E i \in 1..(j - 1) : Raises(files[1][i])) =>
              \E own \in {Contribution(files[1][j], [call |-> 1, file |-> j])} :
                 /\ SelectSeq(ModulesOf(1), LAMBDA m : m.file = j) = own.modules
                 /\ SelectSeq(ChunksOf(1), LAMBDA k : k.file = j) = own.chunks)

C3_Witness ==
  /\ pc[1] = "done"
  /\ files[1] = <<BrokenJson, BundleJs>>
  /\ Count(ModulesOf(1), LAMBDA m : m.file = 2) = 2
  /\ Count(ChunksOf(1), LAMBDA k : k.file = 2) = 1

\* C4: when two calls on the same instance overlap, each returned aggregate
\* holds exactly the modules, chunks and insights derived from its own files.
C4_OverlappingCallsOwnTheirState ==
  \A c \in Calls :
    pc[c] = "done" =>
      LET own == Alone(files[c], c, Len(files[c]))
      IN /\ ModulesOf(c) = own.modules
         /\ ChunksOf(c) = own.chunks
         /\ InsightsOf(c) = generateInsights(own.modules, own.chunks)

\* C5: files are processed one at a time in input order: no module of a later
\* file exists while an earlier file is being processed, and in the returned
\* aggregate every module of an earlier file precedes every module of a
\* later one.
C5_ModulesFollowFileOrder ==
  \A c \in Calls :
    /\ pc[c] \in {"read", "readJs"} =>
         \A r \in ArrayRefs : \A m \in Range(mheap[r]) :
           m.call = c => m.file <= idx[c]
    /\ pc[c] = "done" =>
         \A i, j \in DOMAIN ModulesOf(c) :
           ModulesOf(c)[i].file < ModulesOf(c)[j].file => i < j

C5_Witness ==
  /\ pc[1] = "done"
  /\ \E i, j \in DOMAIN ModulesOf(1) :
       ModulesOf(1)[i].file = 1 /\ ModulesOf(1)[j].file = 2

\* C6: within one run all insights have pairwise distinct ids.
C6_InsightIdsDistinct ==
  \A c \in Calls :
    pc[c] = "done" =>
      \A i, j \in DOMAIN InsightsOf(c) :
        InsightsOf(c)[i].id = InsightsOf(c)[j].id => i = j

PerformanceTierIds ==
  {"slow-3g-load", "poor-compression", "large-bundle-performance",
   "medium-bundle-performance", "good-bundle-size"}

SizeTierIds ==
  {"large-bundle-performance", "medium-bundle-performance", "good-bundle-size"}

HasInsight(c, id) == \E i \in DOMAIN InsightsOf(c) : InsightsOf(c)[i].id = id

\* The fast-3G load time of S bytes exceeds 3 s: 8 S / (1.6 * 2^20) > 3.
Slow3G(S) == 80 * S > 50331648

\* The saved share (S - G) / S is below 30 %: 10 G > 7 S.
PoorCompression(S, G) == S > 0 /\ BigLess(FromInt(7 * S), BigMul(G, <<10>>))

C8_ScoreInRange ==
  performanceData.analyzed => performanceData.performanceScore \in 0..100

\* The bonus lifts an unpenalised score to 110 and the clamp brings it back.
C8_Witness ==
  /\ performanceData.analyzed
  /\ bundleData.totalSize = 0
  /\ Len(bundleData.modules) = 0
  /\ Len(bundleData.chunks) = 2
  /\ performanceData.performanceScore = 100

\* The penalties and the bonus as the claim states them; gzip/size is the
\* quotient of the two doubles.  For S = 0 the ratio is undefined and no
\* compression penalty applies.
ClaimedScore(S, G, moduleCount, externalCount, chunkCount) ==
  LET size == IF S > 1048576 THEN 30 ELSE IF S > 512000 THEN 20
              ELSE IF S > 256000 THEN 10 ELSE 0
      compression == IF S = 0 THEN 0
                     ELSE IF fless(Dec(4, 10), fdiv(G, S)) THEN 15
                     ELSE IF fless(Dec(3, 10), fdiv(G, S)) THEN 5 ELSE 0
      count == IF moduleCount > 200 THEN 15 ELSE IF moduleCount > 100 THEN 10
               ELSE IF moduleCount > 50 THEN 5 ELSE 0
      external == IF externalCount > 30 THEN 10 ELSE IF externalCount > 20 THEN 5
                  ELSE 0
      bonus == IF chunkCount > 1 THEN 10 ELSE 0
      score == 100 - size - compression - count - external + bonus
  IN IF score < 0 THEN 0 ELSE IF score > 100 THEN 100 ELSE score

\* C9: the score is clamp[0,100] of 100 minus one size penalty, one
\* compression penalty, one module-count penalty and one external-module
\* penalty, plus 10 for more than one chunk; 1,572,864 bytes with 250
\* modules, 35 external modules and 1 chunk score 45.
C9_ScoreFormula ==
  performanceData.analyzed =>
    /\ performanceData.performanceScore =
         ClaimedScore(bundleData.totalSize, bundleData.totalGzipSize,
                      Len(bundleData.modules),
                      Count(bundleData.modules, LAMBDA m : m.isExternal),
                      Len(bundleData.chunks))
    /\ ( /\ bundleData.totalSize = 1572864
         /\ ~fless(Dec(3, 10), fdiv(bundleData.totalGzipSize, 1572864))
         /\ Len(bundleData.modules) = 250
         /\ Count(bundleData.modules, LAMBDA m : m.isExternal) = 35
         /\ Len(bundleData.chunks) = 1 )
       => performanceData.performanceScore = 45

C9_Witness ==
  /\ performanceData.analyzed
  /\ bundleData.totalSize = 1572864
  /\ bundleData.totalGzipSize = fmul(FromInt(1572864), Dec(3, 10))
  /\ Len(bundleData.modules) = 250
  /\ Count(bundleData.modules, LAMBDA m : m.isExternal) = 35
  /\ Len(bundleData.chunks) = 1
  /\ performanceData.performanceScore = 45

\* C10: totalGzipSize is the sum over the modules of the measured gzipSize
\* whenever the module has one (0 included), and of 0.3 x size only when it
\* has none.
C10_GzipTotalUsesMeasuredSizes ==
  \A c \in Calls :
    pc[c] = "done" =>
      result[c].totalGzipSize =
        reduceSum(SeqMap(LAMBDA m : IF m.hasGzip THEN FromInt(m.gzipSize)
                                    ELSE fmul(FromInt(m.size), Dec(3, 10)),
                         ModulesOf(c)),
                  Len(ModulesOf(c)))

\* ------------------------------------------------ one .js file at a time
\* The .js files the compiled-bundle extraction is tried on: texts of every
\* length below, with or without a loader marker outside require calls, and
\* with the require calls of one of the lists.  Every text is long enough to
\* hold its require calls.
BundleLengths == (160..172) \cup {180, 340, 700, 1001, 700000}

BundleRequires ==
  LET named1 == Require("__webpack_require__", "./src/index.js", TRUE, FALSE)
      named2 == Require("webpack_require", "lodash", TRUE, FALSE)
      int1   == Require("__webpack_require__", "1", FALSE, TRUE)
      int2   == Require("webpack_require", "2", FALSE, TRUE)
      digits == Require("__webpack_require__", "1", TRUE, TRUE)
  IN {<<>>, <<int1>>, <<int1, int2>>, <<digits>>, <<named1>>, <<named1, named1>>,
      <<named1, int1, named2>>, <<named1, named2, digits, named1>>}

\* What the JavaScript analyzer sees of the text besides the loader calls.
BundleTexts ==
  {<<>>,
   <<Stmt("importNamed", "react"), Stmt("exportConst", "")>>,
   <<Stmt("require", "./util"), Stmt("importBare", "react"),
     Stmt("moduleExports", "")>>}

BundleFiles ==
  {JsFile("bundle.js", length, marker, requires, text) :
     length \in BundleLengths, marker \in BOOLEAN, requires \in BundleRequires,
     text \in BundleTexts}

\* One call of analyzeFiles on one .js file.
NextBundle ==
  \/ \E file \in BundleFiles : AnalyzeFiles(1, <<file>>)
  \/ ProcessFile(1)
  \/ ProcessJavaScriptFile(1)
  \/ AnalyzeFilesReturn(1)

SpecBundle == Init /\ [][NextBundle]_vars

\* The distinct names of the require targets written as string literals that
\* are not made of digits only.
NamedTargets(file) == {r.arg : r \in {q \in Range(file.requires) : q.quoted /\ ~q.numeric}}

\* C11: a .js file whose text holds a loader marker but no named require
\* target (integer targets only, or none) yields exactly 5 synthetic modules
\* and no chunk, and the sum S of their sizes satisfies L - 5 < S <= L for
\* the text length L.
C11_EstimatedModulesSumToLength ==
  pc[1] = "done" /\ Len(files[1]) = 1 =>
    LET file == files[1][1]
        modules == ModulesOf(1)
        S == SizeSum(modules, Len(modules))
    IN hasWebpackIndicator(file) /\ NamedTargets(file) = {} =>
         /\ Len(modules) = 5
         /\ \A i \in 1..5 : modules[i].id = "estimated-" \o ToString(i - 1)
         /\ ChunksOf(1) = <<>>
         /\ file.length - 5 < S
         /\ S <= file.length

\* A text of 180 characters: 0.35 * 180 is 62.99999999999999 as a double, so
\* the five sizes are 27, 21, 45, 62 and 23.
C11_Witness ==
  /\ pc[1] = "done"
  /\ Len(files[1]) = 1
  /\ files[1][1].length = 180
  /\ files[1][1].requires # <<>>
  /\ NamedTargets(files[1][1]) = {}
  /\ Len(ModulesOf(1)) = 5
  /\ SizeSum(ModulesOf(1), 5) = 178

\* C12: a .js file detected as a compiled bundle with n >= 1 distinct named
\* require targets yields exactly n modules, one per distinct target, each
\* of size floor(L / n), and exactly one entry chunk of size L and gzipSize
\* floor(0.3 * L) whose module-id list names exactly those modules; the
\* sizes of the modules sum to at most the size of the chunk.
C12_OneModulePerNamedTarget ==
  pc[1] = "done" /\ Len(files[1]) = 1 =>
    LET file == files[1][1]
        modules == ModulesOf(1)
        chunks == ChunksOf(1)
        n == Cardinality(NamedTargets(file))
    IN n >= 1 =>
         /\ Len(modules) = n
         /\ {m.name : m \in Range(modules)} = NamedTargets(file)
         /\ \A m \in Range(modules) : m.size = file.length \div n
         /\ Len(chunks) = 1
         /\ chunks[1].entry
         /\ chunks[1].size = file.length
         /\ chunks[1].gzipSize = 10 * ((3 * file.length) \div 10)
         /\ chunks[1].modules = SeqMap(LAMBDA m : m.id, modules)
         /\ \A i, j \in DOMAIN modules : modules[i].id = modules[j].id => i = j
         /\ SizeSum(modules, n) <= chunks[1].size

C12_Witness ==
  /\ pc[1] = "done"
  /\ Len(files[1]) = 1
  /\ Len(files[1][1].requires) = 4
  /\ files[1][1].length = 1001
  /\ Len(ModulesOf(1)) = 2
  /\ ModulesOf(1)[1].size = 500
  /\ Len(ChunksOf(1)) = 1

\* C13: a .js file goes down exactly one of two paths.  If its text holds a
\* loader marker, only the compiled-bundle extraction handles it: none of its
\* modules carries a javascriptAnalysis.  Otherwise it yields exactly one
\* module, whose javascriptAnalysis is the analyzer's output for the text and
\* whose dependencies are the dependencies of that analysis.
C13_OnePathPerJsFile ==
  pc[1] = "done" /\ Len(files[1]) = 1 =>
    LET file == files[1][1]
        modules == ModulesOf(1)
    IN IF hasWebpackIndicator(file)
       THEN /\ Len(modules) >= 1
            /\ \A m \in Range(modules) :
                 /\ m.javascriptAnalysis = NoAnalysis
                 /\ m.dependencies = <<>>
       ELSE /\ Len(modules) = 1
            /\ ChunksOf(1) = <<>>
            /\ modules[1].id = "js-" \o file.name
            /\ modules[1].javascriptAnalysis = analyzeFile(createEmptyAnalysis, file.text)
            /\ modules[1].dependencies = modules[1].javascriptAnalysis.dependencies

\* A text of three import statements and no loader marker: one module, with
\* the dependencies the analyzer extracted.
C13_Witness ==
  /\ pc[1] = "done"
  /\ Len(files[1]) = 1
  /\ Len(files[1][1].text) = 3
  /\ ~hasWebpackIndicator(files[1][1])
  /\ Len(ModulesOf(1)) = 1
  /\ ModulesOf(1)[1].dependencies = <<"react", "./util">>

\* ------------------------------------------- JavaScriptAnalyzer.analyzeFile
\* Most calls of analyzeFile in a run of the model.
MaxAnalyzeCalls == 3

\* Faulty variant: the object this.analysis refers to is kept and filled again.
reuseAnalysis(heap, ref) == [heap |-> heap, ref |-> ref]

\* this.analysis = this.createEmptyAnalysis(): a new object.
resetAnalysis(heap, ref) ==
  [heap |-> Append(heap, createEmptyAnalysis), ref |-> Len(heap) + 1]

\* analyzeFile(text) on an instance: synchronous, hence one step.  The
\* passes write through this.analysis; the reference is what is returned.
AnalyzeFile(a, text) ==
  LET reset == resetAnalysis(analyses, analysis[a])
      heap == [reset.heap EXCEPT ![reset.ref] = analyzeFile(@, text)]
  IN /\ content' = [content EXCEPT ![a] = text]
     /\ analysis' = [analysis EXCEPT ![a] = reset.ref]
     /\ analyses' = heap
     /\ returned' = Append(returned, [analyzer |-> a, content |-> text,
                                      ref |-> reset.ref, value |-> heap[reset.ref]])
     /\ UNCHANGED <<engineVars, scoreVars, uploadVars>>

\* The texts the instances are called on, in any order and on any instance.
Texts == BundleTexts

NextAnalyzer ==
  \E a \in Analyzers, text \in Texts :
    Len(returned) < MaxAnalyzeCalls /\ AnalyzeFile(a, text)

SpecAnalyzer == Init /\ [][NextAnalyzer]_vars

\* C18: analyzeFile is a function of its text.  Two calls with the same text,
\* on one instance or on two and with any calls in between, return equal
\* results, and no call modifies a result an earlier call returned.
C18_AnalyzeFilePure ==
  /\ \A i, j \in DOMAIN returned :
       returned[i].content = returned[j].content =>
         analyses[returned[i].ref] = analyses[returned[j].ref]
  /\ \A i \in DOMAIN returned : analyses[returned[i].ref] = returned[i].value

\* The same text analysed on both instances, with another text analysed in
\* between on the first of them.
C18_Witness ==
  /\ Len(returned) = 3
  /\ returned[1].analyzer = returned[2].analyzer
  /\ returned[1].analyzer # returned[3].analyzer
  /\ returned[1].content = returned[3].content
  /\ returned[1].content # returned[2].content
  /\ Len(returned[1].value.imports) = 2
  /\ analyses[returned[3].ref] = returned[1].value

\* ------------------------------------------------ one text, analysed once
\* Most import statements in a text of ImportTexts.
MaxImports == 3

Repeat(stmt, n) == [i \in 1..n |-> stmt]

\* A text made of the given numbers of statements: webpackJsonp calls,
\* __webpack_require__ calls, module.exports assignments, default imports,
\* bare imports, exported constants and var declarations.
ClassifyText(jsonp, req, exports, defaults, bares, consts, variables) ==
  Repeat(Stmt("webpackJsonp", ""), jsonp)
    \o Repeat(Stmt("webpackRequire", ""), req)
    \o Repeat(Stmt("moduleExports", ""), exports)
    \o Repeat(Stmt("importDefault", "y"), defaults)
    \o Repeat(Stmt("importBare", "y"), bares)
    \o Repeat(Stmt("exportConst", ""), consts)
    \o Repeat(Stmt("var", ""), variables)

\* Texts for the classification: from no statement at all to seven loader
\* calls, with the counts at which two families score the same.
ClassifyTexts ==
  {ClassifyText(jsonp, req, exports, defaults, bares, consts, variables) :
     jsonp \in 0..1, req \in {0, 1, 7}, exports \in {0, 1, 3},
     defaults \in {0, 1, 3}, bares \in 0..1, consts \in 0..1,
     variables \in {0, 4, 9}}

\* Texts for the imports: up to MaxImports import statements of the five
\* forms, in any order, naming one of two sources.
ImportStmts ==
  {Stmt(kind, source) :
     kind \in {"importNamed", "importDefault", "importBare", "require", "importCall"},
     source \in {"react", "./util"}}

ImportTexts == SeqsUpTo(ImportStmts, MaxImports)

\* One call of analyzeFile on a new instance, on a text of ClassifyTexts.
NextText ==
  \E text \in ClassifyTexts : returned = <<>> /\ AnalyzeFile(1, text)

SpecText == Init /\ [][NextText]_vars

\* One call of analyzeFile on a new instance, on a text of ImportTexts.
NextImports ==
  \E text \in ImportTexts : returned = <<>> /\ AnalyzeFile(1, text)

SpecImports == Init /\ [][NextImports]_vars

\* import x from 'y'; export const z = 1;
ExampleText == <<Stmt("importDefault", "y"), Stmt("exportConst", "")>>

\* The raw indicator scores of the four families, in the order of scoreKeys.
RawScores(text) ==
  <<detectWebpackIndicators(text), detectBundleIndicators(text),
    detectModuleIndicators(text), detectVanillaIndicators(text)>>

\* The scaled scores: each raw score times the weight of its family.
Scaled(text) ==
  LET raw == RawScores(text)
  IN [k \in 1..4 |-> fmul(raw[k], familyWeights[scoreKeys[k]])]

\* The first family, in the order of scoreKeys, that no family outscores.
Highest(scaled) ==
  CHOOSE i \in 1..4 :
    /\ \A j \in 1..4 : ~fless(scaled[i], scaled[j])
    /\ \A j \in 1..(i - 1) : fless(scaled[j], scaled[i])

C20_EveryEs6ImportRecorded ==
  \A i \in DOMAIN returned :
    LET text == returned[i].content
        imports == returned[i].value.imports
    IN /\ \A l \in DOMAIN text :
            text[l].kind \in {"importNamed", "importDefault", "importBare"} =>
              /\ Cardinality({k \in DOMAIN imports : imports[k].line = l}) = 1
              /\ \A k \in DOMAIN imports :
                   imports[k].line = l =>
                     /\ imports[k].type = "es6"
                     /\ imports[k].source = text[l].source
                     /\ text[l].kind # "importNamed" =>
                          imports[k].items = <<"default">>
       /\ returned[i].value.dependencies = SeqMap(LAMBDA m : m.source, imports)

\* ------------------------------------------- the insights of one stats file
\* Most module entries in a stats file of InsightFiles.
MaxModules == 12

\* The sizes around the two thresholds of analyzeLargeDependencies.
InsightSizes == <<1000, 100 * 1024, 100 * 1024 + 1, 500 * 1024, 500 * 1024 + 1>>

\* How the entries of a file are named: all differently, two by two alike,
\* the first three alike, or all alike.
NamePatterns == {"distinct", "pairs", "triple", "same"}

EntryName(pattern, i) ==
  CASE pattern = "distinct" -> "m" \o ToString(i) \o ".js"
    [] pattern = "pairs" -> "m" \o ToString((i + 1) \div 2) \o ".js"
    [] pattern = "triple" -> IF i <= 3 THEN "utils.js" ELSE "m" \o ToString(i) \o ".js"
    [] pattern = "same" -> "utils.js"

\* A stats file of n entries without ids; entry i has the size that stands
\* at place i + offset (cyclically) in InsightSizes.
InsightFile(n, pattern, offset) ==
  StatsFile("stats.json", 90,
            [i \in 1..n |->
               Entry("", EntryName(pattern, i),
                     InsightSizes[((i + offset) % Len(InsightSizes)) + 1],
                     FALSE, 0, FALSE)])

InsightFiles ==
  {InsightFile(n, pattern, offset) :
     n \in 0..MaxModules, pattern \in NamePatterns, offset \in 0..(Len(InsightSizes) - 1)}

\* One call of analyzeFiles, on no file or on one stats file.
NextInsights ==
  \/ \E fileList \in {<<>>} \cup {<<file>> : file \in InsightFiles} :
       AnalyzeFiles(1, fileList)
  \/ ProcessFile(1)
  \/ AnalyzeFilesReturn(1)

SpecInsights == Init /\ [][NextInsights]_vars

\* The insights of the aggregate with the given id.
InsightsWithId(c, id) == SelectSeq(InsightsOf(c), LAMBDA i : i.id = id)

\* C14: the duplicates insight is emitted once when some module name occurs
\* more than once in the module list and not at all otherwise, and the count
\* it reports is the number of occurrences beyond the first of each name.
C14_DuplicatesCountOccurrences ==
  pc[1] = "done" =>
    LET modules == ModulesOf(1)
        names == {m.name : m \in Range(modules)}
        found == SelectSeq(InsightsOf(1), LAMBDA i : i.category = "duplicates")
    IN IF Cardinality(names) < Len(modules)
       THEN /\ Len(found) = 1
            /\ found[1].id = "duplicates"
            /\ found[1].count = Len(modules) - Cardinality(names)
       ELSE found = <<>>

\* Five modules, the first three of one name: two occurrences beyond the
\* first, of one duplicated name.
C14_Witness ==
  /\ pc[1] = "done"
  /\ Len(ModulesOf(1)) = 5
  /\ Cardinality({m.name : m \in Range(ModulesOf(1))}) = 3
  /\ Len(InsightsWithId(1, "duplicates")) = 1
  /\ InsightsWithId(1, "duplicates")[1].count = 2

\* C15: exactly one insight is emitted for each module larger than 100 KB
\* (102,400 bytes) and none for any other module; its impact is high if the
\* module is larger than 500 KB and medium otherwise, and its
\* estimatedSavings is 0.3 times the size of the module (here in tenths of a
\* byte: 3 times the size).
C15_OneInsightPerLargeModule ==
  pc[1] = "done" =>
    LET modules == ModulesOf(1)
        found == SelectSeq(InsightsOf(1), LAMBDA i : i.category = "dependency")
        large == {k \in DOMAIN modules : modules[k].size > 102400}
    IN /\ Len(found) = Cardinality(large)
       /\ \A k \in large :
            LET own == InsightsWithId(1, "large-dep-" \o modules[k].id)
            IN /\ Len(own) = 1
               /\ own[1].category = "dependency"
               /\ own[1].impact = (IF modules[k].size > 512000 THEN "high" ELSE "medium")
               /\ own[1].estimatedSavings = 3 * modules[k].size

\* Five modules of 1000, 102400, 102401, 512000 and 512001 bytes: three
\* insights, one of them of high impact.
C15_Witness ==
  /\ pc[1] = "done"
  /\ Len(ModulesOf(1)) = 5
  /\ {m.size : m \in Range(ModulesOf(1))} = Range(InsightSizes)
  /\ Len(SelectSeq(InsightsOf(1), LAMBDA i : i.category = "dependency")) = 3
  /\ Len(SelectSeq(InsightsOf(1), LAMBDA i : i.category = "dependency"
                                             /\ i.impact = "high")) = 1

\* C16: the well-modularized insight (informational) is emitted exactly when
\* the aggregate has more than 10 modules, the limited-separation warning
\* exactly when it has 5 modules or fewer, none included; with 6 to 10
\* modules neither is emitted, and the two are never emitted together.
C16_ModuleCountRule ==
  pc[1] = "done" =>
    LET count == Len(ModulesOf(1))
        well == InsightsWithId(1, "module-count")
        limited == InsightsWithId(1, "module-count-low")
    IN /\ Len(well) = (IF count > 10 THEN 1 ELSE 0)
       /\ Len(limited) = (IF count <= 5 THEN 1 ELSE 0)
       /\ \A i \in Range(well) : i.type = "info"
       /\ \A i \in Range(limited) : i.type = "warning"
       /\ count \in 6..10 => well = <<>> /\ limited = <<>>
       /\ ~(well # <<>> /\ limited # <<>>)

\* Ten modules: neither of the two.
C16_Witness ==
  /\ pc[1] = "done"
  /\ Len(ModulesOf(1)) = 10
  /\ InsightsWithId(1, "module-count") = <<>>
  /\ InsightsWithId(1, "module-count-low") = <<>>

\* ------------------------------------------------------ the critical path
\* Most modules in an aggregate of InitCritical.
MaxBlocking == 6

\* The module sizes of those aggregates: 1 is a tenth of 1 + 9, and six
\* modules of 9 or 10 bytes are each more than a tenth of their sum.
BlockingSizes == {1, 9, 10}

CriticalModules(sizes) ==
  [i \in DOMAIN sizes |->
     Module("module-" \o ToString(i - 1), "Module " \o ToString(i - 1), sizes[i],
            FALSE, 0, <<>>, FALSE, "other", NoAnalysis, [call |-> 0, file |-> 0])]

\* new PerformanceAnalyzer(bundleData), on the aggregate of up to MaxBlocking
\* modules of those sizes, in any order.
InitCritical ==
  /\ EngineInit
  /\ \E sizes \in SeqsUpTo(BlockingSizes, MaxBlocking) :
       bundleData = [totalSize |-> SumSeq(sizes),
                     totalGzipSize |-> totalGzipSizeOf(CriticalModules(sizes)),
                     modules |-> CriticalModules(sizes), chunks |-> <<>>]
  /\ performanceData = NoPerformanceData
  /\ AnalyzerInit
  /\ UploadInit

SpecCritical == InitCritical /\ [][NextScore]_vars

\* The places, in the module list of the aggregate, of the modules larger
\* than a tenth of the total size.
Qualifying == {i \in DOMAIN bundleData.modules :
                 10 * bundleData.modules[i].size > bundleData.totalSize}

\* C17: the blocking modules are modules of the aggregate larger than 0.1
\* times totalSize, in non-increasing order of size and at most 5; when more
\* than 5 modules qualify, the 5 kept are the largest ones.
C17_BlockingModulesLargestFive ==
  performanceData.analyzed =>
    LET blocking == performanceData.criticalPath.blockingModules
        modules == bundleData.modules
    IN /\ Len(blocking) = Min2(5, Cardinality(Qualifying))
       /\ \A k \in DOMAIN blocking : \E i \in Qualifying : blocking[k] = modules[i]
       /\ \A k, l \in DOMAIN blocking : blocking[k] = blocking[l] => k = l
       /\ \A k, l \in DOMAIN blocking : k < l => blocking[k].size >= blocking[l].size
       /\ \A i \in Qualifying :
            modules[i] \notin Range(blocking) =>
              \A k \in DOMAIN blocking : blocking[k].size >= modules[i].size

\* Six modules of 9, 9, 9, 9, 9 and 10 bytes: all qualify, and the last of
\* the list is the first of the five kept.
C17_Witness ==
  /\ performanceData.analyzed
  /\ Len(bundleData.modules) = 6
  /\ Cardinality(Qualifying) = 6
  /\ bundleData.modules[6].size = 10
  /\ \A i \in 1..5 : bundleData.modules[i].size = 9
  /\ Len(performanceData.criticalPath.blockingModules) = 5
  /\ performanceData.criticalPath.blockingModules[1] = bundleData.modules[6]

\* ------------------------------------------------- the rest of the engine
\* C21: metadata.fileTypes has one entry per input file, in input order and
\* not deduplicated, and metadata.fileCount is the number of input files;
\* files that failed, were skipped or have an extension the engine does not
\* dispatch on are counted like the others.
C21_MetadataCountsEveryFile ==
  \A c \in Calls :
    pc[c] = "done" =>
      /\ result[c].metadata.fileCount = Len(files[c])
      /\ Len(result[c].metadata.fileTypes) = Len(files[c])
      /\ \A i \in DOMAIN files[c] :
           result[c].metadata.fileTypes[i] = Extension(files[c][i].name)

\* Twice a text file, which the engine does not dispatch on: no module, no
\* chunk, and two entries txt.
C21_Witness ==
  /\ pc[1] = "done"
  /\ files[1] = <<NotesTxt, NotesTxt>>
  /\ ModulesOf(1) = <<>>
  /\ ChunksOf(1) = <<>>
  /\ result[1].metadata.fileCount = 2
  /\ result[1].metadata.fileTypes = <<"txt", "txt">>

\* ------------------------------------------------ the FileUpload component
\* Most files in one selection or drop.
MaxSelect == 2

\* Most onFileUpload promises awaited at a time.
MaxPending == 1

\* A File as the component sees it: its name, given as name.split('.') (the
\* pieces between the dots), and its size in bytes.
UploadFile(pieces, size) == [pieces |-> pieces, size |-> size]

\* app.js (30 MB), stats.json (20 MB and a byte), app.js.map (20 MB), App.JS,
\* notes.txt and a file named json, without a dot.
UploadFiles ==
  {UploadFile(<<"app", "js">>, 30 * 1024 * 1024),
   UploadFile(<<"stats", "json">>, 20 * 1024 * 1024 + 1),
   UploadFile(<<"app", "js", "map">>, 20 * 1024 * 1024),
   UploadFile(<<"App", "JS">>, 5),
   UploadFile(<<"notes", "txt">>, 5),
   UploadFile(<<"json">>, 7)}

\* String.prototype.toLowerCase, on the pieces of the model.
toLowerCase(string) == IF string = "JS" THEN "js" ELSE string

\* Array.prototype.pop of name.split('.'): the last piece.  split yields at
\* least one piece.
pop(pieces) == pieces[Len(pieces)]

\* validateFiles: the error message, or null.
validateFiles(fileList) ==
  IF Len(fileList) = 0 THEN "Please select at least one file"
  ELSE IF \E i \in DOMAIN fileList :
            "." \o toLowerCase(pop(fileList[i].pieces)) \notin {".js", ".json", ".map"}
  THEN "Invalid file type(s)"
  ELSE IF SumSeq(SeqMap(LAMBDA f : f.size, fileList)) > 50 * 1024 * 1024
  THEN "Total file size exceeds 50MB limit"
  ELSE null

\* handleFileSelect(files), from the input or from a drop: files is a
\* FileList, or null (nothing happens then).
HandleFileSelect(isNull, fileList) ==
  /\ IF isNull
     THEN UNCHANGED <<error, selectedFiles>>
     ELSE IF validateFiles(fileList) # null
     THEN /\ error' = validateFiles(fileList)
          /\ selectedFiles' = <<>>
     ELSE /\ error' = null
          /\ selectedFiles' = fileList
  /\ UNCHANGED <<pending, handed>>
  /\ UNCHANGED <<engineVars, pc, files, idx, result, scoreVars, analyzerVars>>

\* removeFile(index), from the button of a listed file.
RemoveFile(index) ==
  /\ index \in 0..(Len(selectedFiles) - 1)
  /\ selectedFiles' = [i \in 1..(Len(selectedFiles) - 1) |->
                         IF i - 1 < index THEN selectedFiles[i]
                         ELSE selectedFiles[i + 1]]
  /\ error' = null
  /\ UNCHANGED <<pending, handed>>
  /\ UNCHANGED <<engineVars, pc, files, idx, result, scoreVars, analyzerVars>>

\* handleSubmit up to its await.
HandleSubmit ==
  /\ IF Len(selectedFiles) = 0
     THEN UNCHANGED <<pending, handed>>
     ELSE /\ pending < MaxPending
          /\ pending' = pending + 1
          /\ handed' = [called |-> TRUE, files |-> selectedFiles]
  /\ UNCHANGED <<selectedFiles, error>>
  /\ UNCHANGED <<engineVars, pc, files, idx, result, scoreVars, analyzerVars>>

\* handleSubmit after its await: the promise was fulfilled, or it was
\* rejected and the catch block sets the error.
HandleSubmitSettled(rejected) ==
  /\ pending > 0
  /\ pending' = pending - 1
  /\ error' = IF rejected THEN "Failed to process files. Please try again." ELSE error
  /\ UNCHANGED <<selectedFiles, handed>>
  /\ UNCHANGED <<engineVars, pc, files, idx, result, scoreVars, analyzerVars>>

NextUpload ==
  \/ \E fileList \in SeqsUpTo(UploadFiles, MaxSelect) :
       HandleFileSelect(FALSE, fileList) \/ HandleFileSelect(TRUE, <<>>)
  \/ \E index \in 0..(MaxSelect - 1) : RemoveFile(index)
  \/ HandleSubmit
  \/ \E rejected \in BOOLEAN : HandleSubmitSettled(rejected)

SpecUpload == Init /\ [][NextUpload]_vars

\* The name ends with .js, .json or .map, in either case of the letters.
HasAllowedExtension(file) ==
  /\ Len(file.pieces) >= 2
  /\ toLowerCase(pop(file.pieces)) \in {"js", "json", "map"}

\* C22: after any sequence of select, drop, remove and submit actions, every
\* file list handed to onFileUpload is non-empty, holds only files with
\* extension .js, .json or .map, and has a total size of at most 50 MB; a
\* selection that fails validation clears the selected list and sets an
\* error.
C22_OnlyValidatedFilesHanded ==
  /\ handed.called =>
       /\ Len(handed.files) > 0
       /\ \A i \in DOMAIN handed.files : HasAllowedExtension(handed.files[i])
       /\ SumSeq(SeqMap(LAMBDA f : f.size, handed.files)) <= 50 * 1024 * 1024
  /\ error \in {"Please select at least one file", "Invalid file type(s)",
                "Total file size exceeds 50MB limit"} => selectedFiles = <<>>

\* C23: when analyzeFiles is called again on the instance after a first call
\* returned, the second aggregate holds no module, chunk or insight of the
\* first call's files, and the lists of the first aggregate stay as they
\* were returned.
C23_SecondCallStartsAfresh ==
  /\ pc[1] = "done" =>
       LET own == Alone(files[1], 1, Len(files[1]))
       IN /\ ModulesOf(1) = own.modules
          /\ ChunksOf(1) = own.chunks
          /\ InsightsOf(1) = generateInsights(own.modules, own.chunks)
  /\ pc[2] # "idle" =>
       /\ \A m \in Range(mheap[this_modules]) : m.call = 2
       /\ \A k \in Range(cheap[this_chunks]) : k.call = 2
  /\ pc[2] = "done" =>
       /\ \A m \in Range(ModulesOf(2)) : m.call = 2
       /\ \A k \in Range(ChunksOf(2)) : k.call = 2
       /\ InsightsOf(2) = generateInsights(ModulesOf(2), ChunksOf(2))
       /\ result[2].modules # result[1].modules
       /\ result[2].chunks # result[1].chunks
       /\ result[2].insights # result[1].insights

\* A stats file and a compiled bundle, then a plain .js file: the first
\* aggregate keeps its three modules, the second has one.
C23_Witness ==
  /\ pc[1] = "done"
  /\ pc[2] = "done"
  /\ files[1] = <<StatsJson, BundleJs>>
  /\ files[2] = <<PlainJs>>
  /\ Len(ModulesOf(1)) = 3
  /\ Len(ChunksOf(1)) = 1
  /\ Len(ModulesOf(2)) = 1
  /\ ChunksOf(2) = <<>>

\* C24: every module id listed in a chunk synthesized from a compiled bundle
\* identifies exactly one module of the aggregate: module ids are unique
\* within an aggregate, whatever the input files.
C24_ModuleIdsUnique ==
  \A c \in Calls :
    pc[c] = "done" =>
      /\ \A k \in Range(ChunksOf(c)) :
           k.id = "main-bundle" =>
             \A id \in Range(k.modules) :
               Cardinality({i \in DOMAIN ModulesOf(c) : ModulesOf(c)[i].id = id}) = 1
      /\ \A i, j \in DOMAIN ModulesOf(c) :
           ModulesOf(c)[i].id = ModulesOf(c)[j].id => i = j

\* ------------------------------------------------ the floor of the score
\* C25: the performance score is never below 30: the penalties sum to at
\* most 70 (30 + 15 + 15 + 10) and the bonus is never negative, so the score
\* before the clamp is at least 30 and the lower bound of the clamp never
\* determines the result.
C25_ScoreAtLeastThirty ==
  performanceData.analyzed =>
    /\ performanceData.performanceScore >= 30
    /\ rawPerformanceScore(bundleData) >= 30
    /\ sizePenalty(bundleData.totalSize)
         + compressionPenalty(bundleData.totalSize, bundleData.totalGzipSize)
         + modulePenalty(Len(bundleData.modules))
         + externalPenalty(Count(bundleData.modules, LAMBDA m : m.isExternal))
       <= 70
    /\ performanceData.performanceScore = Min2(100, rawPerformanceScore(bundleData))

\* Every penalty at its highest and no bonus: the score is exactly 30.
C25_Witness ==
  /\ performanceData.analyzed
  /\ bundleData.totalSize > 1024 * 1024
  /\ fless(Dec(4, 10), fdiv(bundleData.totalGzipSize, bundleData.totalSize))
  /\ Len(bundleData.modules) > 200
  /\ Count(bundleData.modules, LAMBDA m : m.isExternal) > 30
  /\ Len(bundleData.chunks) <= 1
  /\ performanceData.performanceScore = 30

\* ------------------------------------------------ the type of every text
\* C26: analyzeFile never returns the fileType 'unknown' of the empty
\* analysis: the result is bundle, module or vanilla for every text, and a
\* text that matches no indicator pattern, the empty text included, is
\* classified as bundle with confidence 0.
C26_FileTypeNeverUnknown ==
  \A i \in DOMAIN returned :
    /\ returned[i].value.fileType \in {"bundle", "module", "vanilla"}
    /\ (\A k \in 1..4 : RawScores(returned[i].content)[k] = FromInt(0)) =>
         /\ returned[i].value.fileType = "bundle"
         /\ returned[i].value.confidence = 0

\* The empty text has been analysed.
C26_Witness ==
  /\ Len(returned) = 1
  /\ returned[1].content = <<>>
  /\ createEmptyAnalysis.fileType = "unknown"
  /\ returned[1].value.fileType = "bundle"
  /\ returned[1].value.confidence = 0

\* ------------------------------------- the aggregate, analysed and scored
\* Two chunks above 200 KB, the smaller first.
GrowingChunksJson == ChunksFile("chunks.json", 80,
                       <<ChunkEntry("c1", "main", 250000, FALSE, 0, TRUE),
                         ChunkEntry("c2", "vendor", 300000, FALSE, 0, FALSE)>>)

\* Stats files of two or three small modules without gzipSize.
TinyStats(sizes) ==
  StatsFile("stats.json", 90,
            [i \in DOMAIN sizes |->
               Entry("", "m" \o ToString(i) \o ".js", sizes[i], FALSE, 0, FALSE)])

TinyStatsFiles ==
  {TinyStats(sizes) : sizes \in {<<3>>, <<1, 28>>, <<28, 1>>, <<24, 26>>, <<1, 2, 4>>}}

\* A stats file of differently named modules followed by a chunks file, or
\* a small stats file alone.
PipelineLists ==
  {<<file, chunks>> :
     file \in {InsightFile(n, "distinct", offset) :
                 n \in 0..MaxModules, offset \in 0..(Len(InsightSizes) - 1)},
     chunks \in {ChunksJson, GrowingChunksJson}}
  \cup {<<file>> : file \in TinyStatsFiles}

\* new PerformanceAnalyzer(bundleData) on the aggregate call c returned;
\* bundleData holds the lists the aggregate refers to.
NewPerformanceAnalyzer(c) ==
  /\ pc[c] = "done"
  /\ bundleData = NoBundleData
  /\ bundleData' = [totalSize |-> result[c].totalSize,
                    totalGzipSize |-> result[c].totalGzipSize,
                    modules |-> mheap[result[c].modules],
                    chunks |-> cheap[result[c].chunks]]
  /\ UNCHANGED performanceData
  /\ UNCHANGED <<engineVars, analyzerVars, uploadVars>>

\* One call of analyzeFiles, then the performance analysis of its aggregate.
NextPipeline ==
  \/ \E fileList \in PipelineLists : AnalyzeFiles(1, fileList)
  \/ ProcessFile(1)
  \/ AnalyzeFilesReturn(1)
  \/ NewPerformanceAnalyzer(1)
  \/ bundleData # NoBundleData /\ Analyze

SpecPipeline == Init /\ [][NextPipeline]_vars

\* C27: insight generation and performance scoring leave the module and
\* chunk lists of the aggregate as they were, in order and in contents: the
\* step of generateInsights changes no module or chunk array, and the step
\* of PerformanceAnalyzer.analyze changes neither list of its bundleData,
\* although both sort by size on the way.
C27_ListsLeftUnchanged ==
  [][/\ (pc[1] = "finish" /\ pc'[1] = "done") =>
          /\ mheap' = mheap
          /\ cheap' = cheap
     /\ (~performanceData.analyzed /\ performanceData'.analyzed) =>
          /\ bundleData'.modules = bundleData.modules
          /\ bundleData'.chunks = bundleData.chunks]_vars

\* Both analyses have run on an aggregate whose large modules, blocking
\* modules and large chunks all stand the smaller first, so that each of the
\* three sorts had something to reorder, and the lists are still in the
\* order of ingestion.
C27_Witness ==
  /\ pc[1] = "done"
  /\ performanceData.analyzed
  /\ bundleData.modules = ModulesOf(1)
  /\ bundleData.chunks = ChunksOf(1)
  /\ largeModulesOf(ModulesOf(1)).value
       # SelectSeq(ModulesOf(1), LAMBDA m : m.size > 100 * 1024)
  /\ largeChunksOf(ChunksOf(1)).value
       # SelectSeq(ChunksOf(1), LAMBDA c : c.size > 200 * 1024)
  /\ Len(performanceData.criticalPath.blockingModules) >= 2
  /\ \E i, j \in DOMAIN ModulesOf(1) :
       /\ i < j
       /\ ModulesOf(1)[i] = performanceData.criticalPath.blockingModules[2]
       /\ ModulesOf(1)[j] = performanceData.criticalPath.blockingModules[1]
  /\ \A k \in DOMAIN ModulesOf(1) : ModulesOf(1)[k].id = "module-" \o ToString(k - 1)

\* ------------------------------------------ slow load and the size tier
\* C28: whenever the slow-3g-load insight is emitted, the size-tier insight
\* of the same run is not good-bundle-size: a fast-3G load time above 3 s
\* implies a totalSize above 500 KB.
C28_SlowLoadNeverWithGoodSize ==
  pc[1] = "done" =>
    /\ HasInsight(1, "slow-3g-load") =>
         /\ ~HasInsight(1, "good-bundle-size")
         /\ result[1].totalSize > 500 * 1024
    /\ fast3GOver3s(result[1].totalSize) => result[1].totalSize > 500 * 1024

\* A run whose total lies between 629,146 bytes and 1 MB: the slow-3G
\* warning beside the medium size tier.
C28_Witness ==
  /\ pc[1] = "done"
  /\ HasInsight(1, "slow-3g-load")
  /\ HasInsight(1, "medium-bundle-performance")
  /\ ~HasInsight(1, "good-bundle-size")
  /\ result[1].totalSize <= 1024 * 1024

\* ------------------------------------------- the estimated gzip ratio
\* No module of the aggregate carries a measured gzipSize.
NoMeasuredGzip(c) == \A i \in DOMAIN ModulesOf(c) : ~ModulesOf(c)[i].hasGzip

\* C29: for an aggregate of ingestion in which no module carries a measured
\* gzipSize, totalGzipSize / totalSize is exactly 0.3 whenever totalSize > 0,
\* the poor-compression insight is not emitted, and the performance score
\* carries no compression penalty.
C29_EstimatedRatioIsThreeTenths ==
  (pc[1] = "done" /\ NoMeasuredGzip(1) /\ result[1].totalSize > 0) =>
    /\ fdiv(result[1].totalGzipSize, result[1].totalSize) = Dec(3, 10)
    /\ ~HasInsight(1, "poor-compression")
    /\ performanceData.analyzed =>
         performanceData.performanceScore =
           clampScore(100 - sizePenalty(bundleData.totalSize)
                          - modulePenalty(Len(bundleData.modules))
                          - externalPenalty(Count(bundleData.modules,
                                                  LAMBDA m : m.isExternal))
                          + chunkBonus(Len(bundleData.chunks)))

\* --------------------------------------------- the lines of the blocks
\* Most lines in a text of LineTexts.
MaxLines == 3

\* The statements of the texts: a declaration of each kind, a line of a
\* body, and a closing brace alone on its line or followed by a semicolon.
LineStmts ==
  {Stmt("function", "f"), Stmt("arrow", "g"), Stmt("asyncFunction", "h"),
   Stmt("class", "A"), Stmt("return", ""), Stmt("closeBrace", ""),
   Stmt("closeBraceSemi", "")}

LineTexts == SeqsUpTo(LineStmts, MaxLines)

\* One call of analyzeFile on a new instance, on a text of LineTexts.
NextLines ==
  \E text \in LineTexts : returned = <<>> /\ AnalyzeFile(1, text)

SpecLines == Init /\ [][NextLines]_vars

\* The line the claim gives as the end of a block declared on line start:
\* the first later line that is a closing brace alone, or the last line.
ClaimedLineEnd(text, start) ==
  LET later == {k \in (start + 1)..Len(text) : text[k].kind = "closeBrace"}
  IN IF later = {} THEN Len(text)
     ELSE CHOOSE k \in later : \A j \in later : k <= j

\* C30: every function and class record has 1 <= lineStart <= lineEnd <=
\* totalLines; lineStart is the line of the declaration, and lineEnd is the
\* first line after it whose trimmed content is exactly a closing brace, or
\* the last line of the text when there is none.
C30_BlockLinesInRange ==
  \A i \in DOMAIN returned :
    LET text == returned[i].content
        value == returned[i].value
        blocks == value.functions \o value.classes
    IN /\ Len(blocks) =
            Len(SelectSeq(text, LAMBDA st : st.kind \in {"function", "arrow", "class"}))
            + 2 * Len(SelectSeq(text, LAMBDA st : st.kind = "asyncFunction"))
       /\ \A b \in DOMAIN blocks :
            /\ 1 <= blocks[b].lineStart
            /\ blocks[b].lineStart <= blocks[b].lineEnd
            /\ blocks[b].lineEnd <= value.codeMetrics.totalLines
            /\ text[blocks[b].lineStart].source = blocks[b].name
            /\ blocks[b].lineEnd = ClaimedLineEnd(text, blocks[b].lineStart)

\* A closing brace, a function declared after it, a line of its body and
\* no closing brace after: the scan passes over the earlier brace and
\* falls back to the last line.
C30_Witness ==
  /\ Len(returned) = 1
  /\ returned[1].content
       = <<Stmt("closeBrace", ""), Stmt("function", "f"), Stmt("return", "")>>
  /\ Len(returned[1].value.functions) = 1
  /\ returned[1].value.functions[1].lineStart = 2
  /\ returned[1].value.functions[1].lineEnd = 3
  /\ returned[1].value.codeMetrics.totalLines = 3

====
